---- MODULE Spec2Model ----
(***************************************************************************)
(* Front end of the Python 2 -> 3 translator: the identifier table         *)
(* (identifier_table/id_table.py), the indentation-sensitive lexer         *)
(* (lexer/lexer.py) and the recursive-descent parser (parser/parser.py).   *)
(*                                                                         *)
(* Text is modelled as sequences of Unicode code points: "a" is <<97>>.    *)
(* ord() and chr() are therefore the identity on single characters.        *)
(* An Optional[T] value is a sequence of length 0 (None) or 1 (the value). *)
(***************************************************************************)
EXTENDS Integers, Sequences, FiniteSets, TLC

VARIABLES
    table,      \* the IdentifierTable object (its fields, as a record)
    ret,        \* the last IdentifierTable call: operation, name, outcome
    popped,     \* history: the scope ids exit_scope has returned so far
    lexer,      \* the Lexer object (its identifier_table is the variable table)
    parser,     \* the Parser object and the outcome of Parser.parse
    analyzer    \* the SemanticAnalyzer object and the outcome of analyze

vars == <<table, ret, popped, lexer, parser, analyzer>>

\* no Lexer / no Parser has been constructed
NoLexer == [pc |-> "none"]
NoParser == [pc |-> "none"]
NoAnalyzer == [pc |-> "none"]

None == <<>>
Some(x) == <<x>>

\* a local variable of the code: F applied to the value assigned to it
Bind(x, F(_)) == F(x)

(***************************************************************************)
(* Python's str predicates on one character.  Besides the ASCII ranges the *)
(* model knows the non-ASCII letters U+00E9 and U+044F (isalpha) and the   *)
(* non-ASCII digit U+00B2 (isdigit, but not accepted by int()).            *)
(***************************************************************************)
IsAsciiDigit(c) == c \in 48..57
IsDigit(c) == IsAsciiDigit(c) \/ c \in {178}
IsAlpha(c) == c \in 65..90 \/ c \in 97..122 \/ c \in {233, 1103}
IsAlnum(c) == IsAlpha(c) \/ IsDigit(c)

\* str(n) for n >= 0: the decimal digits of n
RECURSIVE str(_)
str(n) == IF n < 10 THEN <<48 + n>> ELSE str(n \div 10) \o <<48 + (n % 10)>>

\* int(s) for a string of isdigit characters: -1 stands for ValueError
RECURSIVE int_of(_, _)
int_of(s, acc) ==
    IF s = <<>> THEN acc
    ELSE IF ~IsAsciiDigit(Head(s)) THEN -1
    ELSE int_of(Tail(s), acc * 10 + (Head(s) - 48))

(***************************************************************************)
(* IdentifierTable                                                         *)
(***************************************************************************)
LoadNum == 3
LoadDen == 4
HashBase == 31

\* (u + v) & 0x7FFFFFFF for u, v in 0 .. 2^31 - 1, computed within 32 bits
AddMask31(u, v) ==
    IF v > 0 /\ u >= (2147483647 - v) + 1
    THEN u - ((2147483647 - v) + 1)
    ELSE u + v

\* (h * 31 + c) & 0x7FFFFFFF for h in 0 .. 2^31 - 1, computed within 32 bits:
\* h = a * 2^26 + b, and 31 * a * 2^26 = ((31 * a) mod 32) * 2^26 modulo 2^31
hash_step(h, c) ==
    LET a == h \div 67108864
        b == h % 67108864
    IN AddMask31(AddMask31(((HashBase * a) % 32) * 67108864, HashBase * b), c)

RECURSIVE next_power_of_two_from(_, _)
next_power_of_two_from(p, n) == IF p < n THEN next_power_of_two_from(2 * p, n) ELSE p
next_power_of_two(n) == next_power_of_two_from(1, n)

Max(a, b) == IF a >= b THEN a ELSE b

RECURSIVE hash_acc(_, _)
hash_acc(key, h) ==
    IF key = <<>> THEN h
    ELSE hash_acc(Tail(key), hash_step(h, Head(key)))

_hash(key, capacity) == IF key = <<>> THEN 0 ELSE hash_acc(key, 0) % capacity

_is_valid_identifier(name) ==
    IF name = <<>> THEN FALSE
    ELSE IF IsDigit(name[1]) THEN FALSE
    ELSE \A i \in 1..Len(name) : IsAlnum(name[i]) \/ name[i] = 95

RECURSIVE digit_prefix(_)
digit_prefix(s) ==
    IF s = <<>> \/ ~IsDigit(Head(s)) THEN <<>>
    ELSE <<Head(s)>> \o digit_prefix(Tail(s))

\* -1 stands for the ValueError of int(depth_str)
_get_scope_depth(scope) ==
    IF scope = <<48>> THEN 0
    ELSE LET depth_str == digit_prefix(scope)
         IN IF depth_str # <<>> THEN int_of(depth_str, 0) ELSE 0

NewTable(initial_capacity) ==
    LET cap == next_power_of_two(Max(2, initial_capacity))
    IN [capacity |-> cap,
        buckets |-> [b \in 0..(cap - 1) |-> <<>>],
        count |-> 0,
        current_scope |-> <<48>>,
        scope_stack |-> << <<48>> >>,
        scope_depth_counter |-> <<>>]

enter_scope_bare(t) ==
    LET new_depth == _get_scope_depth(t.current_scope) + 1
        new_scope == str(new_depth)
    IN [t |-> [t EXCEPT !.scope_stack = Append(@, new_scope),
                        !.current_scope = new_scope],
        ret |-> new_scope, exc |-> ""]

\* exc is "ValueError" when int() in _get_scope_depth raises: nothing has
\* been changed by then
enter_scope(t) ==
    LET current_depth == _get_scope_depth(t.current_scope)
        new_depth == current_depth + 1
        counter0 == IF new_depth \in DOMAIN t.scope_depth_counter
                    THEN t.scope_depth_counter
                    ELSE [d \in (DOMAIN t.scope_depth_counter) \cup {new_depth} |->
                             IF d = new_depth THEN 0 ELSE t.scope_depth_counter[d]]
        block_index == counter0[new_depth]
        counter1 == [counter0 EXCEPT ![new_depth] = @ + 1]
        new_scope == IF block_index = 0
                     THEN str(new_depth)
                     ELSE str(new_depth) \o <<97 + block_index - 1>>
    IN IF current_depth < 0
       THEN [t |-> t, ret |-> <<>>, exc |-> "ValueError"]
       ELSE [t |-> [t EXCEPT !.scope_stack = Append(@, new_scope),
                             !.current_scope = new_scope,
                             !.scope_depth_counter = counter1],
             ret |-> new_scope, exc |-> ""]

exit_scope(t) ==
    IF Len(t.scope_stack) <= 1
    THEN [t |-> t, ret |-> None]
    ELSE LET old_scope == t.scope_stack[Len(t.scope_stack)]
             stack == SubSeq(t.scope_stack, 1, Len(t.scope_stack) - 1)
         IN [t |-> [t EXCEPT !.scope_stack = stack,
                             !.current_scope = stack[Len(stack)]],
             ret |-> Some(old_scope)]

insert_entry_overwrite(t, entry) ==
    LET bi == _hash(entry.name, t.capacity)
        e == [entry EXCEPT !.bucket = bi, !.pos = 0]
    IN [t EXCEPT !.buckets[bi] = <<e>>, !.count = @ + 1]

\* appends the entry as it is: bucket and pos keep the values they had
insert_entry_stale(t, entry) ==
    LET bi == _hash(entry.name, t.capacity)
    IN [t EXCEPT !.buckets[bi] = Append(t.buckets[bi], entry), !.count = @ + 1]

_insert_entry(t, entry) ==
    LET bi == _hash(entry.name, t.capacity)
        bucket == t.buckets[bi]
        e == [entry EXCEPT !.bucket = bi, !.pos = Len(bucket)]
    IN [t EXCEPT !.buckets[bi] = Append(bucket, e), !.count = @ + 1]

\* the entries of a bucket array in iteration order (bucket by bucket)
RECURSIVE chain_from(_, _, _)
chain_from(buckets, b, cap) ==
    IF b >= cap THEN <<>> ELSE buckets[b] \o chain_from(buckets, b + 1, cap)

RECURSIVE rehash_all(_, _)
rehash_all(t, entries) ==
    IF entries = <<>> THEN t
    ELSE rehash_all(_insert_entry(t, Head(entries)), Tail(entries))

resize_keep_count(t) ==
    LET old == chain_from(t.buckets, 0, t.capacity)
        cap == t.capacity * 2
    IN rehash_all([t EXCEPT !.capacity = cap,
                            !.buckets = [b \in 0..(cap - 1) |-> <<>>]], old)

_resize(t) ==
    LET old == chain_from(t.buckets, 0, t.capacity)
        cap == t.capacity * 2
    IN rehash_all([t EXCEPT !.capacity = cap,
                            !.buckets = [b \in 0..(cap - 1) |-> <<>>],
                            !.count = 0], old)

\* index of the first entry of bucket with this name and scope, 0 if none
RECURSIVE find_in(_, _, _, _)
find_in(bucket, i, name, scope) ==
    IF i > Len(bucket) THEN 0
    ELSE IF bucket[i].name = name /\ bucket[i].scope = scope THEN i
    ELSE find_in(bucket, i + 1, name, scope)

\* the load-factor test of insert: count / capacity >= 0.75
NeedsResize(t) == t.count * LoadDen >= LoadNum * t.capacity

insert_resize_first(t, name, kind, type_, value, line, column) ==
    LET t0 == IF NeedsResize(t) THEN _resize(t) ELSE t
    IN IF name = <<>> \/ ~_is_valid_identifier(name)
       THEN [t |-> t0, ok |-> FALSE, err |-> "invalid", resized |-> NeedsResize(t)]
       ELSE [t |-> _insert_entry(t0, [name |-> name, kind |-> kind, type_ |-> type_,
                                      value |-> value, scope |-> t0.current_scope,
                                      bucket |-> -1, pos |-> -1,
                                      line |-> line, column |-> column]),
             ok |-> TRUE, err |-> "", resized |-> NeedsResize(t)]

insert(t, name, kind, type_, value, line, column) ==
    IF name = <<>>
    THEN [t |-> t, ok |-> FALSE, err |-> "empty name", resized |-> FALSE]
    ELSE IF ~_is_valid_identifier(name)
    THEN IF IsDigit(name[1])
         THEN [t |-> t, ok |-> FALSE, err |-> "starts with a digit", resized |-> FALSE]
         ELSE [t |-> t, ok |-> FALSE, err |-> "invalid characters", resized |-> FALSE]
    ELSE
      LET need == NeedsResize(t)
          t1 == IF need THEN _resize(t) ELSE t
          bi == _hash(name, t1.capacity)
          bucket == t1.buckets[bi]
          i == find_in(bucket, 1, name, t1.current_scope)
      IN IF i # 0
         THEN LET e == bucket[i]
                  e1 == [e EXCEPT !.kind = kind, !.type_ = type_, !.value = value,
                                  !.line = IF line > 0 THEN line ELSE @,
                                  !.column = IF column > 0 THEN column ELSE @]
              IN [t |-> [t1 EXCEPT !.buckets[bi][i] = e1],
                  ok |-> TRUE, err |-> "", resized |-> need]
         ELSE LET entry == [name |-> name, kind |-> kind, type_ |-> type_,
                            value |-> value, scope |-> t1.current_scope,
                            bucket |-> bi, pos |-> Len(bucket),
                            line |-> line, column |-> column]
              IN [t |-> [t1 EXCEPT !.buckets[bi] = Append(bucket, entry),
                                   !.count = @ + 1],
                  ok |-> TRUE, err |-> "", resized |-> need]

\* the scan of search: scope_index runs from the top of the stack down
RECURSIVE search_from(_, _, _, _)
search_from(bucket, stack, scope_index, name) ==
    IF scope_index < 1 THEN None
    ELSE LET i == find_in(bucket, 1, name, stack[scope_index])
         IN IF i # 0 THEN Some(bucket[i])
            ELSE search_from(bucket, stack, scope_index - 1, name)

RECURSIVE search_up(_, _, _, _)
search_up(bucket, stack, scope_index, name) ==
    IF scope_index > Len(stack) THEN None
    ELSE LET i == find_in(bucket, 1, name, stack[scope_index])
         IN IF i # 0 THEN Some(bucket[i])
            ELSE search_up(bucket, stack, scope_index + 1, name)

search_outermost(t, name) ==
    IF name = <<>> THEN None
    ELSE search_up(t.buckets[_hash(name, t.capacity)], t.scope_stack, 1, name)

search(t, name) ==
    IF name = <<>> THEN None
    ELSE LET bucket == t.buckets[_hash(name, t.capacity)]
         IN IF bucket = <<>> THEN None
            ELSE search_from(bucket, t.scope_stack, Len(t.scope_stack), name)

search_local(t, name) ==
    IF name = <<>> THEN None
    ELSE LET bucket == t.buckets[_hash(name, t.capacity)]
             i == find_in(bucket, 1, name, t.current_scope)
         IN IF i # 0 THEN Some(bucket[i]) ELSE None

(***************************************************************************)
(* Lexer (lexer/lexer.py, lexer/tokens.py)                                 *)
(***************************************************************************)
\* Token: a token's value is a str, an int or a float
Token(type, value, line, column) ==
    [type |-> type, value |-> value, line |-> line, column |-> column]

StrVal(s) == [k |-> "str", s |-> s, n |-> 0, e |-> 0]
IntVal(n) == [k |-> "int", s |-> <<>>, n |-> n, e |-> 0]
\* the float n * 10^e, with n not a multiple of 10 unless it is 0
FloatVal(n, e) == [k |-> "float", s |-> <<>>, n |-> n, e |-> e]

\* KEYWORD_MAP, as pairs <<keyword, TokenType>>
KEYWORD_MAP ==
    {
      <<<<97, 110, 100>>, "AND">>,                              \* and
      <<<<97, 115>>, "AS">>,                                    \* as
      <<<<97, 115, 115, 101, 114, 116>>, "ASSERT">>,            \* assert
      <<<<98, 114, 101, 97, 107>>, "BREAK">>,                   \* break
      <<<<99, 108, 97, 115, 115>>, "CLASS">>,                   \* class
      <<<<99, 111, 110, 116, 105, 110, 117, 101>>, "CONTINUE">>,\* continue
      <<<<100, 101, 102>>, "DEF">>,                             \* def
      <<<<100, 101, 108>>, "DEL">>,                             \* del
      <<<<101, 108, 105, 102>>, "ELIF">>,                       \* elif
      <<<<101, 108, 115, 101>>, "ELSE">>,                       \* else
      <<<<101, 120, 99, 101, 112, 116>>, "EXCEPT">>,            \* except
      <<<<101, 120, 101, 99>>, "EXEC">>,                        \* exec
      <<<<102, 105, 110, 97, 108, 108, 121>>, "FINALLY">>,      \* finally
      <<<<102, 111, 114>>, "FOR">>,                             \* for
      <<<<102, 114, 111, 109>>, "FROM">>,                       \* from
      <<<<103, 108, 111, 98, 97, 108>>, "GLOBAL">>,             \* global
      <<<<105, 102>>, "IF">>,                                   \* if
      <<<<105, 109, 112, 111, 114, 116>>, "IMPORT">>,           \* import
      <<<<105, 110>>, "IN">>,                                   \* in
      <<<<105, 115>>, "IS">>,                                   \* is
      <<<<108, 97, 109, 98, 100, 97>>, "LAMBDA">>,              \* lambda
      <<<<110, 111, 116>>, "NOT">>,                             \* not
      <<<<111, 114>>, "OR">>,                                   \* or
      <<<<112, 97, 115, 115>>, "PASS">>,                        \* pass
      <<<<112, 114, 105, 110, 116>>, "PRINT">>,                 \* print
      <<<<114, 97, 105, 115, 101>>, "RAISE">>,                  \* raise
      <<<<114, 101, 116, 117, 114, 110>>, "RETURN">>,           \* return
      <<<<116, 114, 121>>, "TRY">>,                             \* try
      <<<<119, 104, 105, 108, 101>>, "WHILE">>,                 \* while
      <<<<119, 105, 116, 104>>, "WITH">>,                       \* with
      <<<<121, 105, 101, 108, 100>>, "YIELD">>,                 \* yield
      <<<<78, 111, 110, 101>>, "NONE">>,                        \* None
      <<<<84, 114, 117, 101>>, "TRUE">>,                        \* True
      <<<<70, 97, 108, 115, 101>>, "FALSE">>                    \* False
    }

\* current_char() and peek_char() return NoChar where the code returns None
NoChar == -1

Lexer(source) ==
    [source |-> source, pos |-> 0, line |-> 1, column |-> 1,
     tokens |-> <<>>, errors |-> <<>>,
     indent_stack |-> <<0>>, at_line_start |-> TRUE,
     pc |-> "scan", exc |-> ""]

\* the capacity of the table the lexer creates: IdentifierTable()
DefaultCapacity == 128

current_char(L) ==
    IF L.pos < Len(L.source) THEN L.source[L.pos + 1] ELSE NoChar

peek_char(L, offset) ==
    IF L.pos + offset < Len(L.source) THEN L.source[L.pos + offset + 1] ELSE NoChar

advance(L) ==
    IF L.pos < Len(L.source)
    THEN IF L.source[L.pos + 1] = 10
         THEN [L EXCEPT !.pos = @ + 1, !.line = @ + 1, !.column = 1,
                        !.at_line_start = TRUE]
         ELSE [L EXCEPT !.pos = @ + 1, !.column = @ + 1]
    ELSE L

\* a diagnostic: the position and the kind of message
Diag(line, column, msg) == [line |-> line, column |-> column, msg |-> msg]

RECURSIVE skip_whitespace(_, _)
skip_whitespace(L, skip_newline) ==
    LET ch == current_char(L)
    IN IF ch = NoChar THEN L
       ELSE IF ch = 32 \/ ch = 9 THEN skip_whitespace(advance(L), skip_newline)
       ELSE IF ch = 10 /\ skip_newline THEN skip_whitespace(advance(L), skip_newline)
       ELSE L

\* the loop of handle_indentation that counts spaces (1) and tabs (4)
RECURSIVE count_indent(_, _)
count_indent(L, indent_level) ==
    IF current_char(L) = 32 THEN count_indent(advance(L), indent_level + 1)
    ELSE IF current_char(L) = 9 THEN count_indent(advance(L), indent_level + 4)
    ELSE [lx |-> L, indent_level |-> indent_level]

\* the loop of handle_indentation that pops the levels above indent_level
RECURSIVE pop_indents(_, _, _, _, _)
pop_indents(L, T, indent_level, start_line, start_col) ==
    IF Len(L.indent_stack) > 1 /\ L.indent_stack[Len(L.indent_stack)] > indent_level
    THEN pop_indents(
             [L EXCEPT !.indent_stack = SubSeq(@, 1, Len(@) - 1),
                       !.tokens = Append(@, Token("DEDENT", IntVal(indent_level),
                                                  start_line, start_col))],
             exit_scope(T).t, indent_level, start_line, start_col)
    ELSE [lx |-> L, tb |-> T]

\* handle_indentation once the leading whitespace is counted: L1 is the lexer
\* after it, with at_line_start cleared
compare_indent(L1, T, indent_level, start_line, start_col) ==
    IF indent_level > L1.indent_stack[Len(L1.indent_stack)]
    THEN Bind(enter_scope(T), LAMBDA r :
           [lx |-> [L1 EXCEPT
                      !.indent_stack = Append(@, indent_level),
                      !.tokens = Append(@, Token("INDENT", IntVal(indent_level),
                                                 start_line, start_col))],
            tb |-> r.t, exc |-> r.exc])
    ELSE IF indent_level < L1.indent_stack[Len(L1.indent_stack)]
    THEN Bind(pop_indents(L1, T, indent_level, start_line, start_col), LAMBDA p :
           [lx |-> IF p.lx.indent_stack[Len(p.lx.indent_stack)] # indent_level
                   THEN [p.lx EXCEPT !.errors =
                           Append(@, Diag(start_line, start_col, "bad indent"))]
                   ELSE p.lx,
            tb |-> p.tb, exc |-> ""])
    ELSE [lx |-> L1, tb |-> T, exc |-> ""]

\* handle_indentation: the lexer, its table, and the exception raised if any
handle_indentation(L, T) ==
    IF ~L.at_line_start THEN [lx |-> L, tb |-> T, exc |-> ""]
    ELSE Bind(count_indent(L, 0), LAMBDA c :
           IF current_char(c.lx) \in {10, 35, NoChar}
           THEN [lx |-> c.lx, tb |-> T, exc |-> ""]
           ELSE compare_indent([c.lx EXCEPT !.at_line_start = FALSE], T,
                               c.indent_level, L.line, L.column))

\* the character classes of the lexer's "advance while" loops
InClass(cls, c) ==
    CASE cls = "alnum_" -> IsAlnum(c) \/ c = 95
      [] cls = "digit" -> IsDigit(c)
      [] cls = "hex" -> c \in 48..57 \/ c \in 97..102 \/ c \in 65..70
      [] cls = "bin" -> c \in {48, 49}
      [] cls = "oct" -> c \in 48..55

\* while current_char() is in the class: value += advance()
RECURSIVE take_while(_, _, _)
take_while(L, cls, value) ==
    IF current_char(L) # NoChar /\ InClass(cls, current_char(L))
    THEN take_while(advance(L), cls, Append(value, current_char(L)))
    ELSE [lx |-> L, value |-> value]

IsKeyword(value) == \E p \in KEYWORD_MAP : p[1] = value
KeywordType(value) == (CHOOSE p \in KEYWORD_MAP : p[1] = value)[2]

\* read_identifier_or_keyword once the name is read: w is the lexer after
\* it and the name
identifier_token(L, T, w) ==
    IF IsKeyword(w.value)
    THEN [lx |-> w.lx, tb |-> T,
          tok |-> Token(KeywordType(w.value), StrVal(w.value), L.line, L.column)]
    ELSE Bind(insert(T, w.value, "var", "auto", "None", 0, 0), LAMBDA r :
           [lx |-> IF r.ok THEN w.lx
                   ELSE [w.lx EXCEPT !.errors =
                           Append(@, Diag(L.line, L.column, r.err))],
            tb |-> r.t,
            tok |-> Token("IDENTIFIER", StrVal(w.value), L.line, L.column)])

read_identifier_or_keyword(L, T) ==
    IF current_char(L) # NoChar /\ (IsAlpha(current_char(L)) \/ current_char(L) = 95)
    THEN identifier_token(L, T, take_while(advance(L), "alnum_", <<current_char(L)>>))
    ELSE identifier_token(L, T, take_while(L, "alnum_", <<>>))

\* the value of a digit of base up to 16
DigitValue(c) ==
    IF c \in 48..57 THEN c - 48 ELSE IF c \in 97..102 THEN c - 87 ELSE c - 55

\* int(value, base) of the digits after the two-character prefix
RECURSIVE int_base(_, _, _)
int_base(digits, base, acc) ==
    IF digits = <<>> THEN acc
    ELSE int_base(Tail(digits), base, acc * base + DigitValue(Head(digits)))

\* 0x.., 0b.., 0o..: int() raises ValueError when no digit follows the prefix
radix_number(L, base, cls, msg) ==
    Bind(take_while(advance(advance(L)), cls, <<>>), LAMBDA w :
      IF w.value # <<>>
      THEN [lx |-> w.lx,
            tok |-> Token("NUMBER", IntVal(int_base(w.value, base, 0)),
                          L.line, L.column)]
      ELSE [lx |-> [w.lx EXCEPT !.errors = Append(@, Diag(L.line, L.column, msg))],
            tok |-> Token("UNKNOWN", StrVal(<<current_char(L), peek_char(L, 1)>>),
                          L.line, L.column)])

\* n * 10^e without the trailing zeros of n
RECURSIVE float_norm(_, _)
float_norm(n, e) ==
    IF n = 0 THEN FloatVal(0, 0)
    ELSE IF n % 10 = 0 THEN float_norm(n \div 10, e + 1)
    ELSE FloatVal(n, e)

\* the value of a decimal literal: int part d1, fraction d2, exponent d3
number_token(L, d1, d2, d3, has_frac, has_exp, e_char, sign) ==
    LET value == d1.value
                 \o (IF has_frac THEN <<46>> \o d2.value ELSE <<>>)
                 \o (IF has_exp THEN <<e_char>> \o sign \o d3.value ELSE <<>>)
        digits == d1.value \o d2.value \o d3.value
        \* float(value) and int(value) raise ValueError on a digit that
        \* is not decimal and on an exponent without digits
        valid == /\ \A i \in 1..Len(digits) : IsAsciiDigit(digits[i])
                 /\ has_exp => d3.value # <<>>
        exponent == (IF sign = <<45>> THEN 0 - int_of(d3.value, 0)
                     ELSE int_of(d3.value, 0)) - Len(d2.value)
    IN IF valid
       THEN [lx |-> d3.lx,
             tok |-> Token("NUMBER",
                           IF has_frac \/ has_exp
                           THEN float_norm(int_of(d1.value \o d2.value, 0), exponent)
                           ELSE IntVal(int_of(d1.value, 0)),
                           L.line, L.column)]
       ELSE [lx |-> [d3.lx EXCEPT !.errors =
                       Append(@, Diag(L.line, L.column, "bad number"))],
             tok |-> Token("UNKNOWN", StrVal(value), L.line, L.column)]

\* the exponent of a decimal literal, after int part d1 and fraction d2
number_exponent(L, d1, d2, has_frac) ==
    IF current_char(d2.lx) \in {101, 69}
    THEN Bind(advance(d2.lx), LAMBDA L3 :
           IF current_char(L3) \in {43, 45}
           THEN number_token(L, d1, d2, take_while(advance(L3), "digit", <<>>),
                             has_frac, TRUE, current_char(d2.lx), <<current_char(L3)>>)
           ELSE number_token(L, d1, d2, take_while(L3, "digit", <<>>),
                             has_frac, TRUE, current_char(d2.lx), <<>>))
    ELSE number_token(L, d1, d2, [lx |-> d2.lx, value |-> <<>>],
                      has_frac, FALSE, NoChar, <<>>)

\* the fraction of a decimal literal, after int part d1
number_fraction(L, d1) ==
    IF /\ current_char(d1.lx) = 46
       /\ peek_char(d1.lx, 1) # NoChar
       /\ IsDigit(peek_char(d1.lx, 1))
    THEN number_exponent(L, d1, take_while(advance(d1.lx), "digit", <<>>), TRUE)
    ELSE number_exponent(L, d1, [lx |-> d1.lx, value |-> <<>>], FALSE)

read_number(L) ==
    IF current_char(L) = 48 /\ peek_char(L, 1) \in {120, 88}
    THEN radix_number(L, 16, "hex", "bad hex number")
    ELSE IF current_char(L) = 48 /\ peek_char(L, 1) \in {98, 66}
    THEN radix_number(L, 2, "bin", "bad binary number")
    ELSE IF current_char(L) = 48 /\ peek_char(L, 1) \in {111, 79}
    THEN radix_number(L, 8, "oct", "bad octal number")
    ELSE number_fraction(L, take_while(L, "digit", <<>>))

\* the body of a triple-quoted string, up to and including the closing quotes
RECURSIVE triple_body(_, _, _)
triple_body(L, quote, value) ==
    IF current_char(L) = NoChar THEN [lx |-> L, value |-> value]
    ELSE IF /\ current_char(L) = quote
            /\ peek_char(L, 1) = quote
            /\ peek_char(L, 2) = quote
    THEN [lx |-> advance(advance(advance(L))), value |-> value]
    ELSE triple_body(advance(L), quote, Append(value, current_char(L)))

escape_map(escape_char, quote) ==
    CASE escape_char = 110 -> 10
      [] escape_char = 116 -> 9
      [] escape_char = 114 -> 13
      [] OTHER -> escape_char

\* the body of a single-line string, up to the closing quote
RECURSIVE single_body(_, _, _)
single_body(L, quote, value) ==
    IF current_char(L) = NoChar \/ current_char(L) = quote
    THEN [lx |-> L, value |-> value]
    ELSE IF current_char(L) = 92
    THEN LET escape_char == current_char(advance(L))
         IN single_body(advance(advance(L)), quote,
                        IF escape_char # NoChar
                        THEN Append(value, escape_map(escape_char, quote))
                        ELSE value)
    ELSE single_body(advance(L), quote, Append(value, current_char(L)))

read_string(L, quote) ==
    IF peek_char(L, 1) = quote /\ peek_char(L, 2) = quote
    THEN Bind(triple_body(advance(advance(advance(L))), quote, <<>>), LAMBDA b :
           [lx |-> b.lx,
            tok |-> Token("STRING", StrVal(b.value), L.line, L.column)])
    ELSE Bind(single_body(advance(L), quote, <<>>), LAMBDA b :
           [lx |-> IF current_char(b.lx) = quote THEN advance(b.lx)
                   ELSE [b.lx EXCEPT !.errors =
                           Append(@, Diag(L.line, L.column, "unterminated string"))],
            tok |-> Token("STRING", StrVal(b.value), L.line, L.column)])

\* the two-character operators: first character, second character, TokenType
TwoCharOps ==
    { <<61, 61, "EQ">>, <<33, 61, "NE">>, <<60, 61, "LE">>, <<62, 61, "GE">>,
      <<43, 61, "PLUS_ASSIGN">>, <<45, 61, "MINUS_ASSIGN">>,
      <<42, 61, "MULT_ASSIGN">>, <<47, 61, "DIV_ASSIGN">>,
      <<37, 61, "MOD_ASSIGN">>, <<42, 42, "POWER">>,
      <<47, 47, "FLOOR_DIVIDE">>, <<45, 62, "ARROW">> }

\* the one-character operators and delimiters
OneCharOps ==
    { <<43, "PLUS">>, <<45, "MINUS">>, <<42, "MULTIPLY">>, <<47, "DIVIDE">>,
      <<37, "MODULO">>, <<61, "ASSIGN">>, <<60, "LT">>, <<62, "GT">>,
      <<40, "LPAREN">>, <<41, "RPAREN">>, <<91, "LBRACKET">>, <<93, "RBRACKET">>,
      <<123, "LBRACE">>, <<125, "RBRACE">>, <<44, "COMMA">>, <<58, "COLON">>,
      <<59, "SEMICOLON">>, <<46, "DOT">> }

\* the last branch of the scan loop: operators, delimiters, unknown characters
read_operator(L) ==
    Bind(<<current_char(L), current_char(advance(L))>>, LAMBDA c :
      IF \E o \in TwoCharOps : o[1] = c[1] /\ o[2] = c[2]
      THEN [lx |-> advance(advance(L)),
            tok |-> Token((CHOOSE o \in TwoCharOps : o[1] = c[1] /\ o[2] = c[2])[3],
                          StrVal(c), L.line, L.column)]
      ELSE IF \E o \in OneCharOps : o[1] = c[1]
      THEN [lx |-> advance(L),
            tok |-> Token((CHOOSE o \in OneCharOps : o[1] = c[1])[2],
                          StrVal(<<c[1]>>), L.line, L.column)]
      ELSE [lx |-> [advance(L) EXCEPT !.errors =
                      Append(@, Diag(L.line, L.column, "unknown character"))],
            tok |-> Token("UNKNOWN", StrVal(<<c[1]>>), L.line, L.column)])

\* the comment branch: advance to the end of the line
RECURSIVE skip_comment(_)
skip_comment(L) ==
    IF current_char(L) # NoChar /\ current_char(L) # 10
    THEN skip_comment(advance(L))
    ELSE L

AddToken(r) == [r.lx EXCEPT !.tokens = Append(@, r.tok)]

\* the branches of the scan loop, on the lexer L and table T that
\* handle_indentation leaves
scan_branch(L, T, ch) ==
    IF ch = NoChar THEN [lx |-> L, tb |-> T]
    ELSE IF ch = 32 \/ ch = 9 THEN [lx |-> skip_whitespace(L, FALSE), tb |-> T]
    ELSE IF ch = 10
    THEN [lx |-> advance([L EXCEPT !.tokens =
                            Append(@, Token("NEWLINE", StrVal(<<10>>),
                                            L.line, L.column))]),
          tb |-> T]
    ELSE IF ch = 35 THEN [lx |-> skip_comment(L), tb |-> T]
    ELSE IF IsAlpha(ch) \/ ch = 95
    THEN Bind(read_identifier_or_keyword(L, T), LAMBDA r :
           [lx |-> AddToken(r), tb |-> r.tb])
    ELSE IF IsDigit(ch) THEN [lx |-> AddToken(read_number(L)), tb |-> T]
    ELSE IF ch = 34 \/ ch = 39 THEN [lx |-> AddToken(read_string(L, ch)), tb |-> T]
    ELSE [lx |-> AddToken(read_operator(L)), tb |-> T]

\* one iteration of the loop of scan, entered with pos < len(source)
scan_step(L, T) ==
    Bind(handle_indentation(L, T), LAMBDA h :
      IF h.exc # ""
      THEN [lx |-> [h.lx EXCEPT !.pc = "aborted", !.exc = h.exc], tb |-> h.tb]
      ELSE scan_branch(h.lx, h.tb, current_char(h.lx)))

flush_one(L, T) ==
    IF Len(L.indent_stack) > 1
    THEN [lx |-> [L EXCEPT !.indent_stack = SubSeq(@, 1, Len(@) - 1),
                           !.tokens = Append(@, Token("DEDENT", IntVal(0),
                                                      L.line, L.column))],
          tb |-> exit_scope(T).t]
    ELSE [lx |-> L, tb |-> T]

\* the loop after the scan loop: a DEDENT for every level still open
RECURSIVE flush_dedents(_, _)
flush_dedents(L, T) ==
    IF Len(L.indent_stack) > 1
    THEN flush_dedents(
             [L EXCEPT !.indent_stack = SubSeq(@, 1, Len(@) - 1),
                       !.tokens = Append(@, Token("DEDENT", IntVal(0),
                                                  L.line, L.column))],
             exit_scope(T).t)
    ELSE [lx |-> L, tb |-> T]

\* the end of scan: the remaining DEDENTs, then EOF
scan_finish(L, T) ==
    Bind(flush_dedents(L, T), LAMBDA f :
      [lx |-> [f.lx EXCEPT !.tokens = Append(@, Token("EOF", StrVal(<<>>),
                                                      f.lx.line, f.lx.column)),
                           !.pc = "done"],
       tb |-> f.tb])

(***************************************************************************)
(* Parser (parser/parser.py, parser/ast_nodes.py)                          *)
(*                                                                         *)
(* A parsing method takes the Parser object P and returns the object after *)
(* the call together with the method's result, [ps |-> .., node |-> ..].   *)
(* P.exc is the exception that is propagating, "" if none.                 *)
(***************************************************************************)
\* the classes parser/ast_nodes.py defines
AstClasses ==
    { "ASTNode", "Program", "FunctionDef", "ClassDef", "If", "While", "For",
      "Print", "Assign", "BinOp", "UnaryOp", "Call", "Return", "Name",
      "Literal", "Import", "ImportFrom" }

\* the result None of a parsing method
NoNode == [node |-> "None"]
\* the truth value of a result: an AST node is true, None is false
Truthy(n) == n.node # "None"

\* depth counts the activations of parse_statement on the call stack and
\* max_depth is the largest depth so far; stack holds the activations of
\* parse_while where parse is followed call by call
Parser(tokens) ==
    [tokens |-> tokens, pos |-> 0, errors |-> <<>>,
     program |-> NoNode, exc |-> "", stalled |-> FALSE, pc |-> "parse",
     depth |-> 0, max_depth |-> 0, stack |-> <<>>]

R(P, node) == [ps |-> P, node |-> node]

\* a name that is not defined is evaluated: NameError
Raise(P, exc) == R([P EXCEPT !.exc = exc], NoNode)

\* the statements after a call: skipped while an exception propagates
Then(r, F(_)) == IF r.ps.exc # "" THEN R(r.ps, NoNode) ELSE F(r)

current_token(P) ==
    IF P.pos < Len(P.tokens) THEN P.tokens[P.pos + 1] ELSE P.tokens[Len(P.tokens)]

peek_token(P, offset) ==
    IF P.pos + offset < Len(P.tokens) THEN P.tokens[P.pos + offset + 1]
    ELSE P.tokens[Len(P.tokens)]

\* Parser.advance; the token it returns is current_token of the object before
advance_token(P) ==
    IF P.pos < Len(P.tokens) - 1 THEN [P EXCEPT !.pos = @ + 1] ELSE P

\* a syntax diagnostic at a token
SyntaxError(P, token, msg, expected) ==
    [P EXCEPT !.errors = Append(@, [line |-> token.line, column |-> token.column,
                                    msg |-> msg, expected |-> expected,
                                    got |-> token.type])]

\* Parser.expect: ok is FALSE where the code returns None
expect(P, token_type) ==
    IF current_token(P).type = token_type
    THEN [ps |-> advance_token(P), ok |-> TRUE, tok |-> current_token(P)]
    ELSE [ps |-> SyntaxError(P, current_token(P), "expected", token_type),
          ok |-> FALSE, tok |-> current_token(P)]

RECURSIVE skip_newlines(_)
skip_newlines(P) ==
    IF current_token(P).type = "NEWLINE" THEN skip_newlines(advance_token(P)) ELSE P

\* AST nodes
Name(id, line, column) == [node |-> "Name", id |-> id, line |-> line, column |-> column]
Literal(value, line, column) ==
    [node |-> "Literal", value |-> value, line |-> line, column |-> column]
BinOp(left, op, right, line, column) ==
    [node |-> "BinOp", left |-> left, op |-> op, right |-> right,
     line |-> line, column |-> column]
UnaryOp(op, operand, line, column) ==
    [node |-> "UnaryOp", op |-> op, operand |-> operand,
     line |-> line, column |-> column]
Call(func, args, line, column) ==
    [node |-> "Call", func |-> func, args |-> args, line |-> line, column |-> column]
Attribute(value, attr, line, column) ==
    [node |-> "Attribute", value |-> value, attr |-> attr,
     line |-> line, column |-> column]
Subscript(value, slice, line, column) ==
    [node |-> "Subscript", value |-> value, slice |-> slice,
     line |-> line, column |-> column]
Assign(target, value, line, column) ==
    [node |-> "Assign", target |-> target, value |-> value,
     line |-> line, column |-> column]

\* the values of Literal nodes that are not token values
ConstVal(name) == [k |-> name]
CollectionVal(kind, elements) == [k |-> kind, elements |-> elements]

\* cls(...): the node if the module defines the class, NameError if not
Construct(P, cls, node) == IF cls \in AstClasses THEN R(P, node) ELSE Raise(P, "NameError")

RECURSIVE parse_expression(_)
RECURSIVE parse_statement(_)
RECURSIVE parse_block(_)

\* the argument loop of a call (parser.py 542-555); node is the list of args
RECURSIVE call_args(_, _)
call_args(P, args) ==
    Then(parse_expression(P), LAMBDA a :
      IF a.ps.pos = P.pos
      THEN R(a.ps, IF Truthy(a.node) THEN Append(args, a.node) ELSE args)
      ELSE IF current_token(a.ps).type = "COMMA"
      THEN call_args(advance_token(a.ps),
                     IF Truthy(a.node) THEN Append(args, a.node) ELSE args)
      ELSE R(a.ps, IF Truthy(a.node) THEN Append(args, a.node) ELSE args))

\* the call branch of parse_postfix, after '(' (at paren_token) is consumed
parse_call(P, func, paren_token) ==
    Then(IF current_token(P).type # "RPAREN" THEN call_args(P, <<>>) ELSE R(P, <<>>),
         LAMBDA a :
           R(expect(a.ps, "RPAREN").ps,
             Call(func, a.node, paren_token.line, paren_token.column)))

\* the loop of parse_postfix
RECURSIVE postfix_loop(_, _)
postfix_loop(P, expr) ==
    IF current_token(P).type = "DOT"
    THEN Bind(expect(advance_token(P), "IDENTIFIER"), LAMBDA x :
           IF x.ok
           THEN Then(Construct(x.ps, "Attribute",
                               Attribute(expr, x.tok.value.s, current_token(P).line,
                                         current_token(P).column)),
                     LAMBDA n : postfix_loop(n.ps, n.node))
           ELSE R(x.ps, expr))
    ELSE IF current_token(P).type = "LBRACKET"
    THEN Then(parse_expression(advance_token(P)), LAMBDA i :
           IF Truthy(i.node)
           THEN Then(Construct(expect(i.ps, "RBRACKET").ps, "Subscript",
                               Subscript(expr, i.node, current_token(P).line,
                                         current_token(P).column)),
                     LAMBDA n : postfix_loop(n.ps, n.node))
           ELSE R(expect(i.ps, "RBRACKET").ps, expr))
    ELSE IF current_token(P).type = "LPAREN"
    THEN \* isinstance(expr, Name) or else isinstance(expr, Attribute), which
         \* evaluates the name Attribute
         IF expr.node # "Name" /\ "Attribute" \notin AstClasses
         THEN Raise(advance_token(P), "NameError")
         ELSE IF expr.node \in {"Name", "Attribute"}
         THEN Then(parse_call(advance_token(P), expr, current_token(P)),
                   LAMBDA c : postfix_loop(c.ps, c.node))
         ELSE R(advance_token(P), expr)
    ELSE R(P, expr)

\* the element loop of a list display; node is the list of elements
RECURSIVE list_elements(_, _)
list_elements(P, elements) ==
    IF current_token(P).type = "RBRACKET" THEN R(P, elements)
    ELSE Then(parse_expression(P), LAMBDA e :
           IF current_token(e.ps).type = "COMMA"
           THEN list_elements(advance_token(e.ps),
                              IF Truthy(e.node) THEN Append(elements, e.node)
                              ELSE elements)
           ELSE R(e.ps, IF Truthy(e.node) THEN Append(elements, e.node)
                        ELSE elements))

\* one key: value pair of a dict display; node is the list of pairs
dict_pair(P, pairs) ==
    Then(parse_expression(P), LAMBDA key :
      IF Truthy(key.node)
      THEN Then(parse_expression(expect(key.ps, "COLON").ps), LAMBDA value :
             R(value.ps, IF Truthy(value.node)
                         THEN Append(pairs, <<key.node, value.node>>)
                         ELSE pairs))
      ELSE R(key.ps, pairs))

RECURSIVE dict_pairs(_, _)
dict_pairs(P, pairs) ==
    IF current_token(P).type = "RBRACE" THEN R(P, pairs)
    ELSE Then(dict_pair(P, pairs), LAMBDA d :
           IF current_token(d.ps).type = "COMMA"
           THEN dict_pairs(advance_token(d.ps), d.node)
           ELSE d)

\* the loop of a parenthesised tuple, at a COMMA
RECURSIVE tuple_elements(_, _)
tuple_elements(P, elements) ==
    IF current_token(P).type = "COMMA"
    THEN IF current_token(advance_token(P)).type = "RPAREN"
         THEN R(advance_token(P), elements)
         ELSE Then(parse_expression(advance_token(P)), LAMBDA e :
                tuple_elements(e.ps, IF Truthy(e.node) THEN Append(elements, e.node)
                                     ELSE elements))
    ELSE R(P, elements)

\* the branch of parse_primary for '(' at paren_token, after it is consumed
parse_paren(P, paren_token) ==
    IF current_token(P).type = "RPAREN"
    THEN R(advance_token(P),
           Literal(CollectionVal("tuple", <<>>), paren_token.line, paren_token.column))
    ELSE Then(parse_expression(P), LAMBDA e :
           IF current_token(e.ps).type = "COMMA"
           THEN Then(tuple_elements(e.ps, IF Truthy(e.node) THEN <<e.node>> ELSE <<>>),
                     LAMBDA t :
                       R(expect(t.ps, "RPAREN").ps,
                         Literal(CollectionVal("tuple", t.node),
                                 paren_token.line, paren_token.column)))
           ELSE R(expect(e.ps, "RPAREN").ps, e.node))

\* parse_primary on the current token
primary_of(P, token) ==
    IF token.type = "IDENTIFIER"
    THEN R(advance_token(P), Name(token.value.s, token.line, token.column))
    ELSE IF token.type \in {"NUMBER", "STRING"}
    THEN R(advance_token(P), Literal(token.value, token.line, token.column))
    ELSE IF token.type \in {"TRUE", "FALSE", "NONE"}
    THEN R(advance_token(P),
           Literal(ConstVal(IF token.type = "TRUE" THEN "True"
                            ELSE IF token.type = "FALSE" THEN "False" ELSE "None"),
                   token.line, token.column))
    ELSE IF token.type = "LBRACKET"
    THEN Then(list_elements(advance_token(P), <<>>), LAMBDA l :
           R(expect(l.ps, "RBRACKET").ps,
             Literal(CollectionVal("list", l.node), token.line, token.column)))
    ELSE IF token.type = "LBRACE"
    THEN Then(dict_pairs(advance_token(P), <<>>), LAMBDA d :
           R(expect(d.ps, "RBRACE").ps,
             Literal(CollectionVal("dict", d.node), token.line, token.column)))
    ELSE IF token.type = "LPAREN" THEN parse_paren(advance_token(P), token)
    ELSE R(advance_token(SyntaxError(P, token, "unexpected token", "")), NoNode)

parse_primary(P) == primary_of(P, current_token(P))

parse_postfix(P) ==
    Then(parse_primary(P), LAMBDA e :
      IF Truthy(e.node) THEN postfix_loop(e.ps, e.node) ELSE R(e.ps, NoNode))

\* the operand of a prefix operator: None if the current token is no such
\* operator, and then the next level parses from the same token
RECURSIVE parse_unary_expr(_)
unary_operand(P) ==
    IF current_token(P).type \in {"PLUS", "MINUS"}
    THEN parse_unary_expr(advance_token(P))
    ELSE R(P, NoNode)

parse_unary_expr(P) ==
    Then(unary_operand(P), LAMBDA o :
      IF Truthy(o.node)
      THEN R(o.ps, UnaryOp(current_token(P).value.s, o.node,
                           current_token(P).line, current_token(P).column))
      ELSE parse_postfix(o.ps))

\* a power level that groups to the left
RECURSIVE power_loop_left(_, _)
power_loop_left(P, left) ==
    IF current_token(P).type = "POWER"
    THEN Then(parse_unary_expr(advance_token(P)), LAMBDA r :
           power_loop_left(r.ps, BinOp(left, <<42, 42>>, r.node,
                                       current_token(P).line, current_token(P).column)))
    ELSE R(P, left)

parse_power_expr_left(P) ==
    Then(parse_unary_expr(P), LAMBDA l :
      IF Truthy(l.node) THEN power_loop_left(l.ps, l.node) ELSE R(l.ps, NoNode))

RECURSIVE parse_power_expr(_)
parse_power_expr(P) ==
    Then(parse_unary_expr(P), LAMBDA l :
      IF ~Truthy(l.node) THEN R(l.ps, NoNode)
      ELSE IF current_token(l.ps).type = "POWER"
      THEN Then(parse_power_expr(advance_token(l.ps)), LAMBDA r :
             IF Truthy(r.node)
             THEN R(r.ps, BinOp(l.node, <<42, 42>>, r.node,
                                current_token(l.ps).line, current_token(l.ps).column))
             ELSE R(r.ps, l.node))
      ELSE l)

\* A left-associative binary level: its first operand and then its loop.
\* left is None while the first operand is to be parsed (a level returns
\* None when its first operand is None); after that, left is the expression
\* built so far and the loop runs while the current token is an operator of
\* the level, which it consumes before the next operand.
\* parse_mult_expr without its operators
parse_mult_expr_flat(P) == parse_power_expr(P)

RECURSIVE mult_loop(_, _)
mult_loop(P, left) ==
    IF Truthy(left) /\ ~(current_token(P).type \in {"MULTIPLY", "DIVIDE", "FLOOR_DIVIDE", "MODULO"})
    THEN R(P, left)
    ELSE Then(parse_power_expr(IF Truthy(left) THEN advance_token(P) ELSE P), LAMBDA r :
           IF ~Truthy(left)
           THEN IF Truthy(r.node) THEN mult_loop(r.ps, r.node) ELSE R(r.ps, NoNode)
           ELSE mult_loop(r.ps, IF Truthy(r.node)
                             THEN BinOp(left, current_token(P).value.s, r.node,
                                        current_token(P).line, current_token(P).column)
                             ELSE left))

parse_mult_expr(P) == mult_loop(P, NoNode)

RECURSIVE add_loop(_, _)
add_loop(P, left) ==
    IF Truthy(left) /\ ~(current_token(P).type \in {"PLUS", "MINUS"})
    THEN R(P, left)
    ELSE Then(parse_mult_expr(IF Truthy(left) THEN advance_token(P) ELSE P), LAMBDA r :
           IF ~Truthy(left)
           THEN IF Truthy(r.node) THEN add_loop(r.ps, r.node) ELSE R(r.ps, NoNode)
           ELSE add_loop(r.ps, IF Truthy(r.node)
                             THEN BinOp(left, current_token(P).value.s, r.node,
                                        current_token(P).line, current_token(P).column)
                             ELSE left))

parse_add_expr(P) == add_loop(P, NoNode)

RECURSIVE comparison_loop(_, _)
comparison_loop(P, left) ==
    IF Truthy(left) /\ ~(current_token(P).type \in {"EQ", "NE", "LT", "LE", "GT", "GE", "IS", "IN"})
    THEN R(P, left)
    ELSE Then(parse_add_expr(IF Truthy(left) THEN advance_token(P) ELSE P), LAMBDA r :
           IF ~Truthy(left)
           THEN IF Truthy(r.node) THEN comparison_loop(r.ps, r.node) ELSE R(r.ps, NoNode)
           ELSE comparison_loop(r.ps, IF Truthy(r.node)
                             THEN BinOp(left, current_token(P).value.s, r.node,
                                        current_token(P).line, current_token(P).column)
                             ELSE left))

parse_comparison(P) == comparison_loop(P, NoNode)

RECURSIVE parse_not_expr(_)
not_operand(P) ==
    IF current_token(P).type = "NOT" THEN parse_not_expr(advance_token(P))
    ELSE R(P, NoNode)

parse_not_expr(P) ==
    Then(not_operand(P), LAMBDA o :
      IF Truthy(o.node)
      THEN R(o.ps, UnaryOp(<<110, 111, 116>>, o.node,
                           current_token(P).line, current_token(P).column))
      ELSE parse_comparison(o.ps))

RECURSIVE and_loop(_, _)
and_loop(P, left) ==
    IF Truthy(left) /\ ~(current_token(P).type = "AND")
    THEN R(P, left)
    ELSE Then(parse_not_expr(IF Truthy(left) THEN advance_token(P) ELSE P), LAMBDA r :
           IF ~Truthy(left)
           THEN IF Truthy(r.node) THEN and_loop(r.ps, r.node) ELSE R(r.ps, NoNode)
           ELSE and_loop(r.ps, IF Truthy(r.node)
                             THEN BinOp(left, <<97, 110, 100>>, r.node,
                                        current_token(P).line, current_token(P).column)
                             ELSE left))

parse_and_expr(P) == and_loop(P, NoNode)

RECURSIVE or_loop(_, _)
or_loop(P, left) ==
    IF Truthy(left) /\ ~(current_token(P).type = "OR")
    THEN R(P, left)
    ELSE Then(parse_and_expr(IF Truthy(left) THEN advance_token(P) ELSE P), LAMBDA r :
           IF ~Truthy(left)
           THEN IF Truthy(r.node) THEN or_loop(r.ps, r.node) ELSE R(r.ps, NoNode)
           ELSE or_loop(r.ps, IF Truthy(r.node)
                             THEN BinOp(left, <<111, 114>>, r.node,
                                        current_token(P).line, current_token(P).column)
                             ELSE left))

parse_or_expr(P) == or_loop(P, NoNode)

parse_expression(P) == parse_or_expr(P)

parse_expression_statement(P) ==
    Then(parse_expression(P), LAMBDA e :
      IF ~Truthy(e.node) THEN R(e.ps, NoNode)
      ELSE IF current_token(e.ps).type = "ASSIGN"
      THEN Then(parse_expression(advance_token(e.ps)), LAMBDA v :
             IF Truthy(v.node)
             THEN R(v.ps, Assign(e.node, v.node, current_token(v.ps).line,
                                 current_token(v.ps).column))
             ELSE R(v.ps, e.node))
      ELSE e)

\* COLON NEWLINE INDENT block DEDENT, as every compound statement expects
\* it; node is the list of statements of the block
block_body(P) ==
    Then(parse_block(expect(expect(expect(P, "COLON").ps, "NEWLINE").ps, "INDENT").ps),
         LAMBDA b : R(expect(b.ps, "DEDENT").ps, b.node))

\* the loop "expect(IDENTIFIER), then a COMMA or stop" of parameter lists,
\* base lists and imports; node is the list of names
RECURSIVE name_list(_, _)
name_list(P, names) ==
    Bind(expect(P, "IDENTIFIER"), LAMBDA x :
      IF current_token(x.ps).type = "COMMA"
      THEN name_list(advance_token(x.ps),
                     IF x.ok THEN Append(names, x.tok.value.s) ELSE names)
      ELSE R(x.ps, IF x.ok THEN Append(names, x.tok.value.s) ELSE names))

\* parse_function_def after the name: x is the result of expect(IDENTIFIER)
function_def_rest(P, x, func_token) ==
    Bind(IF current_token(P).type # "RPAREN" THEN name_list(P, <<>>) ELSE R(P, <<>>),
         LAMBDA params :
           Then(block_body(expect(params.ps, "RPAREN").ps), LAMBDA b :
             R(b.ps, [node |-> "FunctionDef",
                      name |-> IF x.ok THEN x.tok.value.s ELSE <<>>,
                      params |-> params.node, body |-> b.node, decorators |-> <<>>,
                      line |-> func_token.line, column |-> func_token.column])))

parse_function_def(P) ==
    Bind(expect(advance_token(P), "IDENTIFIER"), LAMBDA x :
      function_def_rest(expect(x.ps, "LPAREN").ps, x, current_token(P)))

\* the base list of parse_class_def, at '('; node is the list of bases
class_bases(P) ==
    Bind(IF current_token(advance_token(P)).type # "RPAREN"
         THEN name_list(advance_token(P), <<>>)
         ELSE R(advance_token(P), <<>>),
         LAMBDA bases : R(expect(bases.ps, "RPAREN").ps, bases.node))

parse_class_def(P) ==
    Bind(expect(advance_token(P), "IDENTIFIER"), LAMBDA x :
      Bind(IF current_token(x.ps).type = "LPAREN" THEN class_bases(x.ps)
           ELSE R(x.ps, <<>>),
           LAMBDA bases :
             Then(block_body(bases.ps), LAMBDA b :
               R(b.ps, [node |-> "ClassDef",
                        name |-> IF x.ok THEN x.tok.value.s ELSE <<>>,
                        bases |-> bases.node, body |-> b.node,
                        line |-> current_token(P).line,
                        column |-> current_token(P).column]))))

\* the elif loop of parse_if; node is the list of (condition, body) pairs
RECURSIVE elif_blocks(_, _)
elif_blocks(P, blocks) ==
    IF current_token(P).type = "ELIF"
    THEN Then(parse_expression(advance_token(P)), LAMBDA c :
           Then(block_body(c.ps), LAMBDA b :
             elif_blocks(b.ps, Append(blocks, <<c.node, b.node>>))))
    ELSE R(P, blocks)

\* the else part of parse_if; node is the else body
else_body(P) ==
    IF current_token(P).type = "ELSE" THEN block_body(advance_token(P))
    ELSE R(P, <<>>)

parse_if(P) ==
    Then(parse_expression(advance_token(P)), LAMBDA c :
      Then(block_body(c.ps), LAMBDA t :
        Then(elif_blocks(t.ps, <<>>), LAMBDA ei :
          Then(else_body(ei.ps), LAMBDA el :
            R(el.ps, [node |-> "If", condition |-> c.node, then_body |-> t.node,
                      elif_blocks |-> ei.node, else_body |-> el.node,
                      line |-> current_token(P).line,
                      column |-> current_token(P).column])))))

parse_while(P) ==
    Then(parse_expression(advance_token(P)), LAMBDA c :
      Then(block_body(c.ps), LAMBDA b :
        R(b.ps, [node |-> "While", condition |-> c.node, body |-> b.node,
                 line |-> current_token(P).line,
                 column |-> current_token(P).column])))

parse_for(P) ==
    Bind(expect(advance_token(P), "IDENTIFIER"), LAMBDA x :
      Then(parse_expression(expect(x.ps, "IN").ps), LAMBDA it :
        Then(block_body(it.ps), LAMBDA b :
          R(b.ps, [node |-> "For",
                   target |-> IF x.ok
                              THEN Name(x.tok.value.s, x.tok.line, x.tok.column)
                              ELSE NoNode,
                   iter |-> it.node, body |-> b.node,
                   line |-> current_token(P).line,
                   column |-> current_token(P).column]))))

\* the end of a line only
EndsLine(token) == token.type = "NEWLINE"

\* the three token types that end a print statement
EndsStatement(token) == token.type \in {"NEWLINE", "EOF", "DEDENT"}

\* the argument loop of parse_print; node is [args, newline]
RECURSIVE print_args(_, _)
print_args(P, args) ==
    IF EndsStatement(current_token(P)) THEN R(P, [args |-> args, newline |-> TRUE])
    ELSE Then(parse_expression(P), LAMBDA a :
           IF ~Truthy(a.node)
           THEN R(SyntaxError(a.ps, current_token(a.ps), "expression expected in print", ""),
                  [args |-> args, newline |-> TRUE])
           ELSE IF current_token(a.ps).type = "COMMA"
           THEN IF EndsStatement(current_token(advance_token(a.ps)))
                THEN R(advance_token(a.ps),
                       [args |-> Append(args, a.node), newline |-> FALSE])
                ELSE print_args(advance_token(a.ps), Append(args, a.node))
           ELSE IF ~EndsStatement(current_token(a.ps))
           THEN R(SyntaxError(a.ps, current_token(a.ps), "comma expected in print", ""),
                  [args |-> Append(args, a.node), newline |-> TRUE])
           ELSE R(a.ps, [args |-> Append(args, a.node), newline |-> TRUE]))

parse_print(P) ==
    Then(IF EndsStatement(current_token(advance_token(P)))
         THEN R(advance_token(P), [args |-> <<>>, newline |-> TRUE])
         ELSE print_args(advance_token(P), <<>>),
         LAMBDA a :
           R(a.ps, [node |-> "Print", args |-> a.node.args,
                    newline |-> a.node.newline,
                    line |-> current_token(P).line,
                    column |-> current_token(P).column]))

parse_return(P) ==
    Then(IF current_token(advance_token(P)).type \notin {"NEWLINE", "EOF"}
         THEN parse_expression(advance_token(P))
         ELSE R(advance_token(P), NoNode),
         LAMBDA v :
           R(v.ps, [node |-> "Return", value |-> v.node,
                    line |-> current_token(P).line,
                    column |-> current_token(P).column]))

parse_import(P) ==
    Bind(name_list(advance_token(P), <<>>), LAMBDA n :
      R(n.ps, [node |-> "Import", modules |-> n.node,
               line |-> current_token(P).line, column |-> current_token(P).column]))

parse_from_import(P) ==
    Bind(expect(advance_token(P), "IDENTIFIER"), LAMBDA x :
      Bind(name_list(expect(x.ps, "IMPORT").ps, <<>>), LAMBDA n :
        R(n.ps, [node |-> "ImportFrom",
                 module |-> IF x.ok THEN x.tok.value.s ELSE <<>>,
                 names |-> n.node,
                 line |-> current_token(P).line,
                 column |-> current_token(P).column])))

statement_of(P) ==
    CASE current_token(P).type = "DEF" -> parse_function_def(P)
      [] current_token(P).type = "CLASS" -> parse_class_def(P)
      [] current_token(P).type = "IF" -> parse_if(P)
      [] current_token(P).type = "WHILE" -> parse_while(P)
      [] current_token(P).type = "FOR" -> parse_for(P)
      [] current_token(P).type = "PRINT" -> parse_print(P)
      [] current_token(P).type = "RETURN" -> parse_return(P)
      [] current_token(P).type = "IMPORT" -> parse_import(P)
      [] current_token(P).type = "FROM" -> parse_from_import(P)
      [] OTHER -> parse_expression_statement(P)

\* a call of parse_statement: one more activation while it runs
parse_statement(P) ==
    Bind(statement_of([P EXCEPT !.depth = @ + 1,
                                !.max_depth = IF P.depth + 1 > @ THEN P.depth + 1 ELSE @]),
         LAMBDA r : R([r.ps EXCEPT !.depth = @ - 1], r.node))

\* the end of an iteration of a statement loop that began at old_pos: the
\* forced advance when the statement parser did not move.  stalled records
\* an iteration that ends where it began.
end_iteration(P, old_pos, msg) ==
    Bind(IF P.pos = old_pos
         THEN advance_token(SyntaxError(P, current_token(P), msg, ""))
         ELSE P,
         LAMBDA Q : [Q EXCEPT !.stalled = @ \/ Q.pos = old_pos])

\* the loop of parse_block; node is the list of statements
RECURSIVE block_loop(_, _)
block_loop(P, statements) ==
    IF current_token(P).type \in {"DEDENT", "EOF"} THEN R(P, statements)
    ELSE Bind(skip_newlines(P), LAMBDA P1 :
           IF current_token(P1).type \in {"DEDENT", "EOF"} THEN R(P1, statements)
           ELSE Then(parse_statement(P1), LAMBDA s :
                  block_loop(end_iteration(s.ps, P1.pos, "token skipped"),
                             IF Truthy(s.node) THEN Append(statements, s.node)
                             ELSE statements)))

parse_block(P) == block_loop(P, <<>>)

\* Program(): the root node with an empty body
Program == [node |-> "Program", body |-> <<>>, line |-> 0, column |-> 0]

\* one iteration of the loop of parse, entered with a token other than EOF;
\* pc is "done" when parse returns and "aborted" when an exception leaves it
parse_iteration(P) ==
    Bind(skip_newlines(P), LAMBDA P1 :
      IF current_token(P1).type = "EOF" THEN [P1 EXCEPT !.pc = "done"]
      ELSE Bind(parse_statement(P1), LAMBDA s :
             IF s.ps.exc # "" THEN [s.ps EXCEPT !.pc = "aborted"]
             ELSE Bind(end_iteration(s.ps, P1.pos, "statement skipped"), LAMBDA Q :
                    IF Truthy(s.node)
                    THEN [Q EXCEPT !.program.body = Append(@, s.node)]
                    ELSE Q)))

(***************************************************************************)
(* Parser.parse followed call by call through nested while statements.     *)
(* A frame of parser.stack is one parse_statement -> parse_while ->         *)
(* parse_block chain of calls that has not returned; pc is the loop whose  *)
(* head the parser is at, "parse" or "parse_block".  A statement that is   *)
(* no while statement is parsed in one step.                               *)
(***************************************************************************)
\* the activation of parse_statement (old_pos of its caller's loop),
\* parse_while (its token and condition) and parse_block (its statements)
Frame(old_pos, token, condition) ==
    [old_pos |-> old_pos, token |-> token, condition |-> condition,
     statements |-> <<>>]

\* the rest of a loop iteration of parse or parse_block after parse_statement
\* returned node to it: the caller is parse_block if a frame is open
finish_statement(P, old_pos, node) ==
    IF P.stack = <<>>
    THEN Bind(end_iteration(P, old_pos, "statement skipped"), LAMBDA Q :
           [Q EXCEPT !.pc = "parse",
                     !.program.body = IF Truthy(node) THEN Append(@, node) ELSE @])
    ELSE Bind(end_iteration(P, old_pos, "token skipped"), LAMBDA Q :
           [Q EXCEPT !.pc = "parse_block",
                     !.stack[Len(Q.stack)].statements =
                         IF Truthy(node) THEN Append(@, node) ELSE @])

\* parse_statement called on a WHILE token: parse_while up to its call of
\* parse_block, whose loop the parser is at next
enter_while(P) ==
    Bind(parse_expression(advance_token(
             [P EXCEPT !.depth = @ + 1,
                       !.max_depth = IF P.depth + 1 > @ THEN P.depth + 1 ELSE @])),
         LAMBDA c :
           IF c.ps.exc # "" THEN [c.ps EXCEPT !.pc = "aborted"]
           ELSE [expect(expect(expect(c.ps, "COLON").ps, "NEWLINE").ps, "INDENT").ps
                   EXCEPT !.pc = "parse_block",
                          !.stack = Append(@, Frame(P.pos, current_token(P), c.node))])

\* parse_statement called on another token, and the rest of the iteration
other_statement(P) ==
    Bind(parse_statement(P), LAMBDA s :
      IF s.ps.exc # "" THEN [s.ps EXCEPT !.pc = "aborted"]
      ELSE finish_statement(s.ps, P.pos, s.node))

\* the loop of the innermost parse_block ends: parse_block, parse_while and
\* parse_statement return, and the caller's iteration finishes
leave_while(P, frame) ==
    finish_statement([expect(P, "DEDENT").ps
                        EXCEPT !.depth = @ - 1,
                               !.stack = SubSeq(@, 1, Len(@) - 1)],
                     frame.old_pos,
                     [node |-> "While", condition |-> frame.condition,
                      body |-> frame.statements,
                      line |-> frame.token.line, column |-> frame.token.column])

(***************************************************************************)
(* SemanticAnalyzer (semantic_analyzer/semantic_analyzer.py)               *)
(*                                                                         *)
(* The scopes reachable from current_scope through parent form a stack:    *)
(* A.scopes, the global scope first and current_scope last.  An analysing  *)
(* method takes the analyzer object A and returns the object after the     *)
(* call.  The text of a diagnostic is left out; its type and position are  *)
(* kept.                                                                   *)
(***************************************************************************)
\* the arity of a builtin: None, an int, or a pair (min, max) with max an
\* int or None
NoArity == [kind |-> "None"]
Exactly(n) == [kind |-> "int", n |-> n]
Between(min_args, max_args) == [kind |-> "tuple", min |-> min_args, max |-> max_args]

BUILTIN_FUNCTIONS ==
    (<<112, 114, 105, 110, 116>> :> NoArity)  \* print
    @@ (<<114, 97, 110, 103, 101>> :> Between(1, Some(3)))  \* range
    @@ (<<120, 114, 97, 110, 103, 101>> :> Between(1, Some(3)))  \* xrange
    @@ (<<108, 101, 110>> :> Exactly(1))  \* len
    @@ (<<115, 116, 114>> :> Exactly(1))  \* str
    @@ (<<105, 110, 116>> :> Between(0, Some(2)))  \* int
    @@ (<<102, 108, 111, 97, 116>> :> Exactly(1))  \* float
    @@ (<<98, 111, 111, 108>> :> Between(0, Some(1)))  \* bool
    @@ (<<108, 105, 115, 116>> :> Between(0, Some(1)))  \* list
    @@ (<<100, 105, 99, 116>> :> Between(0, Some(1)))  \* dict
    @@ (<<115, 101, 116>> :> Between(0, Some(1)))  \* set
    @@ (<<116, 117, 112, 108, 101>> :> Between(0, Some(1)))  \* tuple
    @@ (<<116, 121, 112, 101>> :> Exactly(1))  \* type
    @@ (<<105, 115, 105, 110, 115, 116, 97, 110, 99, 101>> :> Exactly(2))  \* isinstance
    @@ (<<109, 97, 120>> :> Between(1, None))  \* max
    @@ (<<109, 105, 110>> :> Between(1, None))  \* min
    @@ (<<115, 117, 109>> :> Between(1, Some(2)))  \* sum
    @@ (<<115, 111, 114, 116, 101, 100>> :> Between(1, Some(1)))  \* sorted
    @@ (<<114, 101, 118, 101, 114, 115, 101, 100>> :> Exactly(1))  \* reversed
    @@ (<<101, 110, 117, 109, 101, 114, 97, 116, 101>> :> Between(1, Some(2)))  \* enumerate
    @@ (<<122, 105, 112>> :> Between(1, None))  \* zip
    @@ (<<109, 97, 112>> :> Between(2, None))  \* map
    @@ (<<102, 105, 108, 116, 101, 114>> :> Exactly(2))  \* filter
    @@ (<<105, 110, 112, 117, 116>> :> Between(0, Some(1)))  \* input
    @@ (<<114, 97, 119, 95, 105, 110, 112, 117, 116>> :> Between(0, Some(1)))  \* raw_input
    @@ (<<111, 112, 101, 110>> :> Between(1, Some(3)))  \* open
    @@ (<<102, 105, 108, 101>> :> Between(1, Some(3)))  \* file
    @@ (<<97, 98, 115>> :> Exactly(1))  \* abs
    @@ (<<114, 111, 117, 110, 100>> :> Between(1, Some(2)))  \* round
    @@ (<<112, 111, 119>> :> Between(2, Some(3)))  \* pow
    @@ (<<97, 108, 108>> :> Exactly(1))  \* all
    @@ (<<97, 110, 121>> :> Exactly(1))  \* any
    @@ (<<111, 114, 100>> :> Exactly(1))  \* ord
    @@ (<<99, 104, 114>> :> Exactly(1))  \* chr
    @@ (<<117, 110, 105, 99, 104, 114>> :> Exactly(1))  \* unichr
    @@ (<<98, 105, 110>> :> Exactly(1))  \* bin
    @@ (<<104, 101, 120>> :> Exactly(1))  \* hex
    @@ (<<111, 99, 116>> :> Exactly(1))  \* oct

BUILTIN_TYPES ==
    { <<98, 111, 111, 108>>,
      <<98, 121, 116, 101, 97, 114, 114, 97, 121>>,
      <<98, 121, 116, 101, 115>>,
      <<100, 105, 99, 116>>,
      <<102, 108, 111, 97, 116>>,
      <<105, 110, 116>>,
      <<108, 105, 115, 116>>,
      <<108, 111, 110, 103>>,
      <<111, 98, 106, 101, 99, 116>>,
      <<115, 101, 116>>,
      <<115, 116, 114>>,
      <<116, 117, 112, 108, 101>>,
      <<116, 121, 112, 101>>,
      <<117, 110, 105, 99, 111, 100, 101>> }
\* the names semantic_analyzer.py imports from parser.ast_nodes
ImportedClasses ==
    { "ASTNode", "Program", "FunctionDef", "ClassDef", "If", "While", "For",
      "Return", "Break", "Continue", "Assign", "Call", "Name", "BinOp",
      "Literal", "Print", "Import", "ImportFrom", "Pass", "UnaryOp",
      "Attribute", "Subscript" }

\* the node classes among them that parser/ast_nodes.py does not define; they
\* are the variants break, continue, pass, attribute-access and subscript of
\* the specification's AST node, each carrying line and column
SpecClasses == { "Break", "Continue", "Pass", "Attribute", "Subscript" }

\* Scope(name, parent, scope_type): parent is the scope below it in A.scopes
Scope(name, scope_type) ==
    [name |-> name, scope_type |-> scope_type, declared_vars |-> {},
     functions |-> <<>>, classes |-> <<>>, class_methods |-> <<>>,
     class_attributes |-> <<>>, in_loop |-> FALSE, in_function |-> FALSE,
     has_return |-> FALSE]

\* SemanticAnalyzer(): no scope yet; ast is the argument of analyze
SemanticAnalyzer ==
    [errors |-> <<>>, warnings |-> <<>>, scopes |-> <<>>, exc |-> "", pc |-> "new",
     ast |-> NoNode]

\* self.current_scope
current_scope(A) == A.scopes[Len(A.scopes)]

\* errors.append(SemanticError(error_type, message, node.line, node.column))
SemanticError(A, error_type, node) ==
    [A EXCEPT !.errors = Append(@, [error_type |-> error_type,
                                    line |-> node.line, column |-> node.column])]

\* warnings.append(SemanticWarning(error_type, message, node.line, node.column))
SemanticWarning(A, error_type, node) ==
    [A EXCEPT !.warnings = Append(@, [error_type |-> error_type,
                                      line |-> node.line, column |-> node.column])]

\* current_scope.declare(name)
declare(A, name) ==
    [A EXCEPT !.scopes[Len(A.scopes)].declared_vars = @ \cup {name}]

\* Scope.is_declared of the last scope of scopes
is_declared(scopes, name) ==
    \E j \in 1..Len(scopes) : name \in scopes[j].declared_vars

\* Scope.get_function of the last scope of scopes; NoNode is None
RECURSIVE get_function(_, _)
get_function(scopes, name) ==
    IF name \in DOMAIN scopes[Len(scopes)].functions
    THEN scopes[Len(scopes)].functions[name]
    ELSE IF Len(scopes) > 1
         THEN get_function(SubSeq(scopes, 1, Len(scopes) - 1), name)
         ELSE NoNode

RECURSIVE get_class(_, _)
get_class(scopes, name) ==
    IF name \in DOMAIN scopes[Len(scopes)].classes
    THEN scopes[Len(scopes)].classes[name]
    ELSE IF Len(scopes) > 1
         THEN get_class(SubSeq(scopes, 1, Len(scopes) - 1), name)
         ELSE NoNode

\* the dict of the methods of a class, the empty dict included; None if no
\* scope knows the class
RECURSIVE get_class_methods(_, _)
get_class_methods(scopes, class_name) ==
    IF class_name \in DOMAIN scopes[Len(scopes)].class_methods
    THEN Some(scopes[Len(scopes)].class_methods[class_name])
    ELSE IF Len(scopes) > 1
         THEN get_class_methods(SubSeq(scopes, 1, Len(scopes) - 1), class_name)
         ELSE None

\* isinstance(node, cls); None is an instance of no class
isinstance(node, cls) == node.node = cls

RECURSIVE analyze_node(_, _)
RECURSIVE analyze_all(_, _)

\* for stmt in nodes: self._analyze_node(stmt)
analyze_all(A, nodes) ==
    IF nodes = <<>> THEN A
    ELSE analyze_all(analyze_node(A, Head(nodes)), Tail(nodes))

\* the first loop of _analyze_function_def, from parameter i on
RECURSIVE duplicate_params(_, _, _)
duplicate_params(A, node, i) ==
    IF i > Len(node.params) THEN A
    ELSE duplicate_params(
            IF \E j \in 1..(i - 1) : node.params[j] = node.params[i]
            THEN SemanticError(A, "DUPLICATE_ARGUMENT", node) ELSE A,
            node, i + 1)

\* function_<name>
function_scope_name(name) == <<102, 117, 110, 99, 116, 105, 111, 110, 95>> \o name
\* class_<name>
class_scope_name(name) == <<99, 108, 97, 115, 115, 95>> \o name

\* the function is registered in the current scope, then its scope is pushed
\* with the parameters declared
enter_function(A, node) ==
    [A EXCEPT !.scopes =
        Append([@ EXCEPT ![Len(@)].functions = (node.name :> node) @@ @],
               [Scope(function_scope_name(node.name), "function")
                   EXCEPT !.in_function = TRUE,
                          !.declared_vars = { node.params[i] : i \in 1..Len(node.params) }])]

\* current_scope = prev_scope
leave_scope(A) == [A EXCEPT !.scopes = SubSeq(@, 1, Len(@) - 1)]

analyze_function_def(A, node) ==
    leave_scope(analyze_all(enter_function(duplicate_params(A, node, 1), node),
                            node.body))

\* the class is declared and registered in the current scope, then its scope
\* is pushed
enter_class(A, node) ==
    [A EXCEPT !.scopes =
        Append([@ EXCEPT ![Len(@)].declared_vars = @ \cup {node.name},
                         ![Len(@)].classes = (node.name :> node) @@ @,
                         ![Len(@)].class_methods = (node.name :> <<>>) @@ @,
                         ![Len(@)].class_attributes = (node.name :> {}) @@ @],
               Scope(class_scope_name(node.name), "class"))]

\* one statement of a class body: a method is recorded in the class scope and
\* in prev_scope.class_methods, the target of an assignment in
\* prev_scope.class_attributes
class_statement(A, node, stmt) ==
    IF isinstance(stmt, "FunctionDef")
    THEN analyze_function_def(
            [A EXCEPT !.scopes[Len(A.scopes)].functions = (stmt.name :> stmt) @@ @,
                      !.scopes[Len(A.scopes) - 1].class_methods[node.name] =
                          (stmt.name :> stmt) @@ @],
            stmt)
    ELSE analyze_node(
            IF isinstance(stmt, "Assign") /\ isinstance(stmt.target, "Name")
            THEN [A EXCEPT !.scopes[Len(A.scopes) - 1].class_attributes[node.name] =
                              @ \cup {stmt.target.id}]
            ELSE A,
            stmt)

RECURSIVE class_body(_, _, _)
class_body(A, node, stmts) ==
    IF stmts = <<>> \/ A.exc # "" THEN A
    ELSE class_body(class_statement(A, node, Head(stmts)), node, Tail(stmts))

analyze_class_def(A, node) ==
    leave_scope(class_body(enter_class(A, node), node, node.body))

\* for condition, body in node.elif_blocks
RECURSIVE analyze_elif_blocks(_, _)
analyze_elif_blocks(A, blocks) ==
    IF blocks = <<>> THEN A
    ELSE analyze_elif_blocks(
            analyze_all(analyze_node(A, Head(blocks)[1]), Head(blocks)[2]),
            Tail(blocks))

analyze_if(A, node) ==
    analyze_all(
        analyze_elif_blocks(
            analyze_all(analyze_node(A, node.condition), node.then_body),
            node.elif_blocks),
        node.else_body)

\* the body of a loop with in_loop left set after it
loop_body_unrestored(A, body) ==
    analyze_all([A EXCEPT !.scopes[Len(A.scopes)].in_loop = TRUE], body)

\* the body of a loop: in_loop of the current scope is set for the body and
\* set back to prev_in_loop after it
loop_body(A, body) ==
    [analyze_all([A EXCEPT !.scopes[Len(A.scopes)].in_loop = TRUE], body)
        EXCEPT !.scopes[Len(A.scopes)].in_loop = current_scope(A).in_loop]

analyze_while(A, node) == loop_body(analyze_node(A, node.condition), node.body)

analyze_for(A, node) ==
    Bind(analyze_node(A, node.iter), LAMBDA B :
      loop_body(IF isinstance(node.target, "Name")
                THEN declare(B, node.target.id) ELSE B,
                node.body))

analyze_return(A, node) ==
    analyze_node(IF ~current_scope(A).in_function
                 THEN SemanticError(A, "RETURN_OUTSIDE_FUNCTION", node) ELSE A,
                 node.value)

analyze_break(A, node) ==
    IF ~current_scope(A).in_loop
    THEN SemanticError(A, "BREAK_OUTSIDE_LOOP", node) ELSE A

analyze_continue(A, node) ==
    IF ~current_scope(A).in_loop
    THEN SemanticError(A, "CONTINUE_OUTSIDE_LOOP", node) ELSE A

analyze_assign(A, node) ==
    analyze_node(
        IF isinstance(node.target, "Name")
        THEN declare(IF node.target.id \in BUILTIN_TYPES
                     THEN SemanticWarning(A, "REDEFINITION_BUILTIN", node) ELSE A,
                     node.target.id)
        ELSE A,
        node.value)

\* does the argument count n break the arity of a builtin?
arity_mismatch(arg_spec, n) ==
    \/ arg_spec.kind = "int" /\ n # arg_spec.n
    \/ /\ arg_spec.kind = "tuple"
       /\ \/ n < arg_spec.min
          \/ arg_spec.max # None /\ n > arg_spec.max[1]

\* a check that reports missing arguments only
call_user_function_fewer(A, node, func_def) ==
    IF ~Truthy(func_def)
    THEN IF ~is_declared(A.scopes, node.func.id)
         THEN SemanticError(A, "UNDECLARED_IDENTIFIER", node) ELSE A
    ELSE IF Len(node.args) < Len(func_def.params)
         THEN SemanticError(A, "ARGUMENT_COUNT_MISMATCH", node) ELSE A

\* the else branch of _analyze_call: a callee that is not a builtin
call_user_function(A, node, func_def) ==
    IF ~Truthy(func_def)
    THEN IF ~is_declared(A.scopes, node.func.id)
         THEN SemanticError(A, "UNDECLARED_IDENTIFIER", node) ELSE A
    ELSE IF Len(node.args) # Len(func_def.params)
         THEN SemanticError(A, "ARGUMENT_COUNT_MISMATCH", node) ELSE A

\* _analyze_method_call: the class is known when the object is a Name that
\* get_class finds
method_mismatch(A, node) ==
    /\ isinstance(node.func.value, "Name")
    /\ Truthy(get_class(A.scopes, node.func.value.id))
    /\ node.func.value.id # <<>>
    /\ Bind(get_class_methods(A.scopes, node.func.value.id), LAMBDA class_methods :
         /\ class_methods # None
         /\ node.func.attr \in DOMAIN class_methods[1]
         /\ Len(node.args) # Len(class_methods[1][node.func.attr].params) - 1)

analyze_method_call(A, node) ==
    IF method_mismatch(A, node)
    THEN SemanticError(A, "ARGUMENT_COUNT_MISMATCH", node) ELSE A

\* _analyze_call before the loop over the arguments
call_callee(A, node) ==
    IF isinstance(node.func, "Name")
    THEN IF node.func.id \in DOMAIN BUILTIN_FUNCTIONS
         THEN IF arity_mismatch(BUILTIN_FUNCTIONS[node.func.id], Len(node.args))
              THEN SemanticError(A, "ARGUMENT_COUNT_MISMATCH", node) ELSE A
         ELSE call_user_function(A, node, get_function(A.scopes, node.func.id))
    ELSE IF isinstance(node.func, "Attribute")
         THEN analyze_method_call(A, node)
         ELSE A

analyze_call(A, node) == analyze_all(call_callee(A, node), node.args)

analyze_name(A, node) ==
    IF /\ ~is_declared(A.scopes, node.id)
       /\ node.id \notin DOMAIN BUILTIN_FUNCTIONS
       /\ node.id \notin BUILTIN_TYPES
    THEN SemanticError(A, "UNDECLARED_IDENTIFIER", node) ELSE A

\* the checks after the object have no effect
analyze_attribute(A, node) == analyze_node(A, node.value)

\* node.index: the Subscript nodes the parser builds have value and slice
analyze_subscript(A, node) ==
    Bind(analyze_node(A, node.value), LAMBDA B :
      IF "index" \in DOMAIN node THEN analyze_node(B, node.index)
      ELSE IF B.exc # "" THEN B ELSE [B EXCEPT !.exc = "AttributeError"])

\* value == 0 for the value of a Literal: 0, 0.0 and False
EqualsZero(value) ==
    \/ value.k \in {"int", "float"} /\ value.n = 0
    \/ value.k = "False"

analyze_binop(A, node) ==
    Bind(analyze_node(analyze_node(A, node.left), node.right), LAMBDA B :
      IF /\ B.exc = ""
         /\ node.op \in { <<47>>, <<47, 47>> }
         /\ isinstance(node.right, "Literal")
         /\ EqualsZero(node.right.value)
      THEN SemanticError(B, "CONST_DIVISION_BY_ZERO", node) ELSE B)

\* _analyze_node; nothing is done while an exception propagates, for None
\* and for a node of any other class
analyze_node(A, node) ==
    IF A.exc # "" THEN A
    ELSE CASE isinstance(node, "Program") -> analyze_all(A, node.body)
           [] isinstance(node, "FunctionDef") -> analyze_function_def(A, node)
           [] isinstance(node, "ClassDef") -> analyze_class_def(A, node)
           [] isinstance(node, "If") -> analyze_if(A, node)
           [] isinstance(node, "While") -> analyze_while(A, node)
           [] isinstance(node, "For") -> analyze_for(A, node)
           [] isinstance(node, "Return") -> analyze_return(A, node)
           [] isinstance(node, "Break") -> analyze_break(A, node)
           [] isinstance(node, "Continue") -> analyze_continue(A, node)
           [] isinstance(node, "Assign") -> analyze_assign(A, node)
           [] isinstance(node, "Call") -> analyze_call(A, node)
           [] isinstance(node, "Name") -> analyze_name(A, node)
           [] isinstance(node, "BinOp") -> analyze_binop(A, node)
           [] isinstance(node, "Attribute") -> analyze_attribute(A, node)
           [] isinstance(node, "Subscript") -> analyze_subscript(A, node)
           [] OTHER -> A

\* the builtins are declared in the global scope
global_scope ==
    [Scope(<<103, 108, 111, 98, 97, 108>>, "global")
        EXCEPT !.declared_vars = DOMAIN BUILTIN_FUNCTIONS]

\* SemanticAnalyzer.analyze(ast): returns self.errors
analyze(A, ast) ==
    Bind(analyze_node([A EXCEPT !.errors = <<>>, !.warnings = <<>>,
                                !.scopes = << global_scope >>, !.ast = ast],
                      ast),
         LAMBDA B : [B EXCEPT !.pc = IF B.exc = "" THEN "done" ELSE "raised"])

\* `from semantic_analyzer import SemanticAnalyzer` runs the import of
\* semantic_analyzer.py: a name that is bound nowhere raises ImportError and
\* leaves no SemanticAnalyzer class to call
import_SemanticAnalyzer ==
    IF ImportedClasses \subseteq AstClasses \cup SpecClasses THEN SemanticAnalyzer
    ELSE [SemanticAnalyzer EXCEPT !.exc = "ImportError", !.pc = "raised"]

(***************************************************************************)
(* The table driven by an arbitrary caller.                                *)
(***************************************************************************)
MaxCount == 3       \* entries stored at most
MaxScopes == 2      \* enter_scope calls at most
MaxDepth == 2       \* nesting depth at most

\* "", "a", "1a", "a-", U+044F: "a" and U+044F share a bucket while the
\* capacity is 2 and part when it grows
TableNames == { <<>>, <<97>>, <<49, 97>>, <<97, 45>>, <<1103>> }
SearchNames == { <<>>, <<97>>, <<1103>> }

\* the attribute arguments of insert: the defaults, and everything set
DefaultAttrs == [kind |-> "var", type_ |-> "auto", value |-> "None", line |-> 0, column |-> 0]
FullAttrs == [kind |-> "func", type_ |-> "int", value |-> "42", line |-> 2, column |-> 3]
TableAttrs == {DefaultAttrs, FullAttrs}

\* the calls of insert the caller makes: every name with the default
\* attributes, and "a" with every attribute set
InsertCalls ==
    {<<n, DefaultAttrs>> : n \in TableNames} \cup {<< <<97>>, FullAttrs >>}

InitialCapacities == {2}

RECURSIVE SumOver(_, _)
SumOver(f, S) ==
    IF S = {} THEN 0
    ELSE LET d == CHOOSE x \in S : TRUE IN f[d] + SumOver(f, S \ {d})

ScopesEntered(t) == SumOver(t.scope_depth_counter, DOMAIN t.scope_depth_counter)

NoCall == [op |-> "new", name |-> <<>>, ok |-> TRUE, resized |-> FALSE]

TableInit ==
    /\ \E c \in InitialCapacities : table = NewTable(c)
    /\ ret = NoCall
    /\ popped = {}
    /\ lexer = NoLexer
    /\ parser = NoParser
    /\ analyzer = NoAnalyzer

Insert ==
    \E call \in InsertCalls :
        LET name == call[1]
            a == call[2]
            r == insert(table, name, a.kind, a.type_, a.value, a.line, a.column)
        IN /\ Len(chain_from(r.t.buckets, 0, r.t.capacity)) <= MaxCount
           /\ table' = r.t
           /\ ret' = [op |-> "insert", name |-> name, ok |-> r.ok,
                      resized |-> r.resized]
           /\ UNCHANGED <<popped, lexer, parser, analyzer>>

EnterScope ==
    /\ ScopesEntered(table) < MaxScopes
    /\ Len(table.scope_stack) <= MaxDepth
    /\ LET r == enter_scope(table)
       IN /\ table' = r.t
          /\ ret' = [NoCall EXCEPT !.op = "enter_scope", !.ok = (r.exc = "")]
    /\ UNCHANGED <<popped, lexer, parser, analyzer>>

ExitScope ==
    LET r == exit_scope(table)
    IN /\ table' = r.t
       /\ ret' = [NoCall EXCEPT !.op = "exit_scope", !.ok = (r.ret # None)]
       /\ popped' = popped \cup {r.ret[i] : i \in 1..Len(r.ret)}
       /\ UNCHANGED <<lexer, parser, analyzer>>

Search ==
    \E name \in SearchNames :
        /\ ret' = [NoCall EXCEPT !.op = "search", !.name = name,
                                 !.ok = (search(table, name) # None)]
        /\ UNCHANGED <<table, popped, lexer, parser, analyzer>>

SearchLocal ==
    \E name \in SearchNames :
        /\ ret' = [NoCall EXCEPT !.op = "search_local", !.name = name,
                                 !.ok = (search_local(table, name) # None)]
        /\ UNCHANGED <<table, popped, lexer, parser, analyzer>>

TableNext == Insert \/ EnterScope \/ ExitScope \/ Search \/ SearchLocal

SpecTable == TableInit /\ [][TableNext]_vars

(***************************************************************************)
(* Scopes alone: many sibling blocks opened and closed.                    *)
(***************************************************************************)
MaxEnters == 28     \* enter_scope calls at most, in SpecScopes

EnterScopeS ==
    /\ ScopesEntered(table) < MaxEnters
    /\ Len(table.scope_stack) <= MaxDepth
    /\ LET r == enter_scope(table)
       IN /\ table' = r.t
          /\ ret' = [NoCall EXCEPT !.op = "enter_scope", !.ok = (r.exc = "")]
    /\ UNCHANGED <<popped, lexer, parser, analyzer>>

ScopesNext == EnterScopeS \/ ExitScope

SpecScopes == TableInit /\ [][ScopesNext]_vars

(***************************************************************************)
(* Lexer.scan on a source text: one step per iteration of the scan loop.   *)
(***************************************************************************)
MaxLines == 3       \* lines at most in an indentation source
MaxSiblings == 83   \* sibling blocks in the source of many blocks

\* leading whitespace of a line: none, one space, two spaces, a tab
IndentChoices == { <<>>, <<32>>, <<32, 32>>, <<9>> }
\* what follows it: the name a, nothing (a blank line), a comment
LineBodies == { <<97>>, <<>>, <<35>> }

\* the texts of n lines, each ended by a newline
RECURSIVE LinesOf(_)
LinesOf(n) ==
    IF n = 0 THEN { <<>> }
    ELSE { i \o b \o <<10>> \o rest :
             i \in IndentChoices, b \in LineBodies, rest \in LinesOf(n - 1) }

\* up to MaxLines lines; the last line may lack its newline
IndentSources ==
    UNION { LinesOf(n) : n \in 0..MaxLines }
    \cup { p \o i \o b : p \in UNION { LinesOf(n) : n \in 0..(MaxLines - 1) },
                         i \in IndentChoices, b \in LineBodies }

\* pieces of text that take every branch of the scan loop
Snippets ==
    {
      <<97>>,                                           \* a
      <<105, 102>>,                                     \* if
      <<95, 97, 49>>,                                   \* _a1
      <<1103>>,                                         \* я
      <<49>>,                                           \* 1
      <<48, 49, 50>>,                                   \* 012
      <<48, 120, 49, 70>>,                              \* 0x1F
      <<48, 120>>,                                      \* 0x
      <<48, 98, 49>>,                                   \* 0b1
      <<48, 111, 55>>,                                  \* 0o7
      <<49, 46, 53>>,                                   \* 1.5
      <<49, 101>>,                                      \* 1e
      <<49, 101, 43, 50>>,                              \* 1e+2
      <<49, 46, 53, 48, 101, 45, 49>>,                  \* 1.50e-1
      <<178>>,                                          \* ²
      <<34, 97, 34>>,                                   \* "a"
      <<39, 97>>,                                       \* 'a
      <<34, 97, 92, 110, 34>>,                          \* "a\\n"
      <<34, 92>>,                                       \* "\\
      <<34, 34, 34, 97, 10, 98, 34, 34, 34>>,           \* """a\nb"""
      <<34, 34, 34, 97>>,                               \* """a
      <<61, 61>>,                                       \* ==
      <<61>>,                                           \* =
      <<33, 61>>,                                       \* !=
      <<33>>,                                           \* !
      <<60, 61>>,                                       \* <=
      <<45, 62>>,                                       \* ->
      <<42, 42>>,                                       \* **
      <<47, 47>>,                                       \* //
      <<43, 61>>,                                       \* +=
      <<45>>,                                           \* -
      <<32>>,                                           \*  
      <<9>>,                                            \* \t
      <<10>>,                                           \* \n
      <<35, 99>>,                                       \* #c
      <<40>>,                                           \* (
      <<46>>,                                           \* .
      <<63>>,                                           \* ?
      <<10, 32, 97>>,                                   \* \n a
      <<10, 32, 32, 97>>,                               \* \n  a
      <<10, 39>>                                        \* newline, '
    }

TokenSources == { a \o b : a, b \in Snippets }

\* n sibling blocks "x" / " y", the last of them with a nested line "  z"
RECURSIVE SiblingBlocks(_)
SiblingBlocks(n) ==
    IF n = 0 THEN <<>>
    ELSE <<120, 10, 32, 121, 10>> \o SiblingBlocks(n - 1)

SiblingSources == { SiblingBlocks(MaxSiblings) \o <<32, 32, 122, 10>> }

\* strings whose text runs over the end of a line, followed on the line
\* where they end by another token
StringSources == {
    <<34, 34, 34, 97, 10, 98, 34, 34, 34, 32, 99, 10>>,
    <<120, 32, 61, 32, 39, 97, 10, 98, 39, 32, 43, 32, 49, 10>>,
    <<39, 97, 10, 39, 32, 98>>,
    <<105, 102, 32, 97, 58, 10, 32, 32, 120, 32, 61, 32, 34, 34, 34, 97, 10,
      98, 34, 34, 34, 32, 43, 32, 49, 10>>,
    <<34, 97, 92, 10, 98, 34, 32, 99, 10>>,
    <<105, 102, 32, 97, 58, 10, 32, 32, 120, 32, 61, 32, 34, 34, 34, 97, 10,
      98, 34, 34, 34, 10, 32, 32, 121, 10>>,
    <<34, 34, 34, 97, 10, 98, 34, 34, 34, 10, 32, 99, 10>>,
    <<120, 32, 61, 32, 34, 34, 34, 97, 34, 34, 34, 32, 43, 32, 49, 10>>
}

LexSources ==
    IndentSources \cup TokenSources \cup SiblingSources \cup StringSources

LexInit ==
    /\ \E source \in LexSources : lexer = Lexer(source)
    /\ table = NewTable(DefaultCapacity)
    /\ ret = NoCall
    /\ popped = {}
    /\ parser = NoParser
    /\ analyzer = NoAnalyzer

ScanStep ==
    /\ lexer.pc = "scan"
    /\ lexer.pos < Len(lexer.source)
    /\ LET r == scan_step(lexer, table)
       IN /\ lexer' = r.lx
          /\ table' = r.tb
    /\ UNCHANGED <<ret, popped, parser, analyzer>>

ScanFinish ==
    /\ lexer.pc = "scan"
    /\ lexer.pos >= Len(lexer.source)
    /\ LET r == scan_finish(lexer, table)
       IN /\ lexer' = r.lx
          /\ table' = r.tb
    /\ UNCHANGED <<ret, popped, parser, analyzer>>

LexNext == ScanStep \/ ScanFinish

SpecLexer == LexInit /\ [][LexNext]_vars

(***************************************************************************)
(* The parser run on the tokens of a scanned source: Lexer(source).scan()  *)
(* and then Parser(tokens).parse(), one iteration of parse's loop a step.  *)
(***************************************************************************)
\* the source texts, as code points: every statement form and every
\* expression form of the grammar, well formed and malformed
ParseSources == {
    <<>>,
    <<10, 10>>,
    <<120, 32, 61, 32, 49, 10>>,
    <<120, 32, 61, 32, 97, 32, 43, 32, 98, 32, 42, 32, 99, 32, 42, 42, 32,
      45, 100, 10>>,
    <<97, 46, 98, 10>>,
    <<97, 91, 48, 93, 10>>,
    <<49, 40, 50, 41, 10>>,
    <<102, 40, 41, 40, 41, 10>>,
    <<102, 40, 97, 44, 32, 98, 41, 10>>,
    <<102, 40, 41, 10>>,
    <<40, 97, 41, 40, 98, 41, 10>>,
    <<97, 46, 10>>,
    <<97, 91, 93, 10>>,
    <<105, 102, 32, 97, 58, 10, 32, 32, 98, 10, 101, 108, 105, 102, 32, 99,
      58, 10, 32, 32, 100, 10, 101, 108, 115, 101, 58, 10, 32, 32, 101, 10>>,
    <<105, 102, 32, 97, 58, 10, 32, 32, 105, 102, 32, 98, 58, 10, 32, 32, 32,
      32, 99, 10>>,
    <<105, 102, 32, 97, 10, 32, 32, 98, 10>>,
    <<119, 104, 105, 108, 101, 32, 97, 32, 60, 32, 98, 58, 10, 32, 32, 112,
      114, 105, 110, 116, 32, 97, 44, 32, 98, 44, 10>>,
    <<102, 111, 114, 32, 105, 32, 105, 110, 32, 120, 58, 10, 32, 32, 112,
      114, 105, 110, 116, 32, 105, 10>>,
    <<102, 111, 114, 32, 105, 110, 58, 10>>,
    <<100, 101, 102, 32, 102, 40, 97, 44, 32, 98, 41, 58, 10, 32, 32, 114,
      101, 116, 117, 114, 110, 32, 97, 10>>,
    <<100, 101, 102, 32, 102, 40, 41, 58, 10, 32, 32, 114, 101, 116, 117,
      114, 110, 10>>,
    <<100, 101, 102, 10>>,
    <<99, 108, 97, 115, 115, 32, 65, 40, 66, 44, 32, 67, 41, 58, 10, 32, 32,
      120, 32, 61, 32, 49, 10>>,
    <<99, 108, 97, 115, 115, 32, 65, 58, 10, 32, 32, 120, 10>>,
    <<99, 108, 97, 115, 115, 32, 65, 40, 41, 58, 10, 32, 32, 120, 10>>,
    <<105, 109, 112, 111, 114, 116, 32, 97, 44, 32, 98, 10>>,
    <<105, 109, 112, 111, 114, 116, 10>>,
    <<102, 114, 111, 109, 32, 97, 32, 105, 109, 112, 111, 114, 116, 32, 98,
      44, 32, 99, 10>>,
    <<102, 114, 111, 109, 32, 105, 109, 112, 111, 114, 116, 10>>,
    <<112, 114, 105, 110, 116, 10>>,
    <<112, 114, 105, 110, 116, 32, 97, 32, 98, 10>>,
    <<112, 114, 105, 110, 116, 32, 44, 10>>,
    <<112, 114, 105, 110, 116, 32, 97, 44, 10>>,
    <<112, 114, 105, 110, 116, 32, 97, 44, 32, 98, 10>>,
    <<112, 114, 105, 110, 116, 32, 39, 97, 39>>,
    <<91, 49, 44, 32, 50, 93, 10>>,
    <<91, 93, 10>>,
    <<91, 49, 10>>,
    <<123, 97, 58, 32, 49, 44, 32, 98, 58, 32, 50, 125, 10>>,
    <<123, 125, 10>>,
    <<123, 97, 125, 10>>,
    <<40, 97, 44, 32, 98, 41, 10>>,
    <<40, 97, 44, 41, 10>>,
    <<40, 97, 41, 10>>,
    <<40, 41, 10>>,
    <<110, 111, 116, 32, 97, 32, 97, 110, 100, 32, 98, 32, 111, 114, 32, 99,
      10>>,
    <<110, 111, 116, 32, 110, 111, 116, 32, 97, 10>>,
    <<97, 32, 105, 115, 32, 98, 10>>,
    <<97, 32, 105, 110, 32, 98, 10>>,
    <<97, 32, 61, 61, 32, 98, 32, 33, 61, 32, 99, 10>>,
    <<97, 32, 60, 61, 32, 98, 32, 62, 61, 32, 99, 10>>,
    <<97, 32, 45, 32, 98, 32, 47, 32, 99, 32, 47, 47, 32, 100, 32, 37, 32,
      101, 10>>,
    <<50, 32, 42, 42, 32, 51, 32, 42, 42, 32, 52, 10>>,
    <<45, 43, 97, 10>>,
    <<84, 114, 117, 101, 10>>,
    <<70, 97, 108, 115, 101, 10>>,
    <<78, 111, 110, 101, 10>>,
    <<39, 115, 39, 10>>,
    <<49, 46, 53, 10>>,
    <<48, 120, 49, 70, 10>>,
    <<41, 10>>,
    <<98, 114, 101, 97, 107, 10>>,
    <<112, 97, 115, 115, 10>>,
    <<120, 32, 61, 10>>,
    <<97, 32, 43, 10>>,
    <<61, 32, 49, 10>>,
    <<97, 32, 61, 32, 61, 32, 98, 10>>,
    <<120, 10, 32, 32, 121, 10>>,
    <<114, 101, 116, 117, 114, 110, 32, 97, 46, 98, 10>>,
    <<105, 102, 32, 97, 58, 10, 32, 32, 97, 46, 98, 10>>,
    <<120, 32, 61, 32, 91, 97, 46, 98, 93, 10>>,
    <<112, 114, 105, 110, 116, 32, 97, 91, 48, 93, 10>>,
    <<97, 32, 63, 32, 98, 10>>,
    <<91, 49, 44>>,
    <<102, 40, 97, 44>>,
    <<123, 97, 58>>,
    <<40, 97, 44>>,
    <<102, 40, 97, 32, 98, 41, 10>>,
    <<123, 97, 58, 32, 49, 44, 10>>,
    <<120, 32, 61, 32, 121, 105, 101, 108, 100, 10>>,
    <<105, 102, 32, 97, 58, 32, 98, 10>>,
    <<100, 101, 102, 32, 102, 40, 97, 44, 41, 58, 10, 32, 32, 98, 10>>,
    <<100, 101, 102, 32, 102, 40, 49, 41, 58, 10, 32, 32, 98, 10>>,
    <<99, 108, 97, 115, 115, 32, 65, 40, 66, 58, 10, 32, 32, 120, 10>>,
    <<105, 109, 112, 111, 114, 116, 32, 97, 44, 10>>,
    <<105, 102, 32, 97, 58, 10, 32, 32, 98, 10, 101, 108, 115, 101, 10, 32,
      32, 99, 10>>,
    <<105, 102, 32, 97, 58, 10, 32, 32, 98, 10, 101, 108, 105, 102, 58, 10,
      32, 32, 99, 10>>,
    <<32, 32, 120, 10>>,
    <<114, 101, 116, 117, 114, 110, 10>>,
    <<112, 114, 105, 110, 116, 32, 40, 97, 44, 32, 98, 41, 10>>,
    <<97, 32, 61, 32, 98, 32, 61, 32, 99, 10>>,
    <<102, 40, 97, 41, 40, 98, 41, 10>>,
    <<91, 97, 93, 40, 98, 41, 10>>,
    <<40, 97, 46, 98, 41, 10>>,
    <<102, 40, 97, 46, 98, 41, 10>>,
    <<102, 40, 10>>,
    <<99, 111, 110, 116, 105, 110, 117, 101, 10>>,
    <<119, 104, 105, 108, 101, 32, 97, 58, 10, 32, 32, 98, 114, 101, 97, 107,
      10>>,
    <<119, 104, 105, 108, 101, 32, 97, 58, 10, 32, 32, 98, 10, 32, 32, 99,
      10, 100, 10>>,
    <<100, 101, 102, 32, 102, 40, 41, 58, 10, 32, 32, 114, 101, 116, 117,
      114, 110>>,
    <<100, 101, 102, 32, 102, 40, 41, 58, 10, 32, 32, 105, 102, 32, 97, 58,
      10, 32, 32, 32, 32, 114, 101, 116, 117, 114, 110>>,
    <<100, 101, 102, 32, 102, 40, 41, 58, 10, 32, 32, 105, 102, 32, 97, 58,
      10, 32, 32, 32, 32, 114, 101, 116, 117, 114, 110, 10, 32, 32, 98, 10>>,
    <<100, 101, 102, 32, 102, 40, 41, 58, 10, 32, 32, 114, 101, 116, 117,
      114, 110, 32, 49>>,
    <<114, 101, 116, 117, 114, 110>>,
    <<100, 101, 102, 32, 102, 40, 41, 58, 10, 32, 32, 105, 102, 32, 97, 58,
      10, 32, 32, 32, 32, 114, 101, 116, 117, 114, 110, 10>>,
    <<40, 49, 41, 40, 50, 41, 10>>,
    <<120, 32, 61, 32, 40, 97, 41, 40, 98, 41, 10>>,
    <<39, 115, 39, 40, 49, 41, 10>>,
    <<102, 40, 49, 41, 40, 50, 41, 10>>,
    <<120, 32, 61, 32, 49, 40, 50, 41, 32, 43, 32, 51, 10>>,
    <<40, 97, 41, 40, 41, 10>>,
    <<102, 40, 97, 41, 40, 98, 41, 40, 99, 41, 10>>,
    <<91, 49, 93, 40, 50, 41, 10>>,
    <<105, 102, 32, 97, 58, 10, 10, 32, 32, 98, 10>>,
    <<105, 102, 32, 97, 58, 10, 32, 32, 35, 32, 99, 10, 32, 32, 98, 10>>,
    <<105, 102, 32, 97, 58, 10, 35, 32, 99, 10, 32, 32, 98, 10>>,
    <<105, 102, 32, 97, 58, 10, 32, 32, 32, 10, 32, 32, 98, 10>>,
    <<119, 104, 105, 108, 101, 32, 97, 58, 10, 10, 32, 32, 98, 10>>,
    <<100, 101, 102, 32, 102, 40, 41, 58, 10, 10, 32, 32, 114, 101, 116, 117,
      114, 110, 32, 49, 10>>,
    <<105, 102, 32, 97, 58, 10, 32, 32, 98, 10, 101, 108, 115, 101, 58, 10,
      10, 32, 32, 99, 10>>,
    <<105, 102, 32, 97, 58, 10, 32, 32, 98, 10, 10, 32, 32, 99, 10>>,
    <<105, 102, 32, 97, 58, 10, 32, 32, 98, 10>>,
    <<105, 102, 32, 97, 58, 10, 32, 32, 98, 10, 101, 108, 115, 101, 58, 10,
      32, 32, 99, 10>>,
    <<119, 104, 105, 108, 101, 32, 97, 58, 10, 32, 32, 98, 10>>,
    <<100, 101, 102, 32, 102, 40, 41, 58, 10, 32, 32, 114, 101, 116, 117,
      114, 110, 32, 49, 10>>,
    <<102, 111, 114, 32, 105, 32, 105, 110, 32, 120, 58, 10, 32, 32, 35, 32,
      99, 10, 32, 32, 98, 10>>,
    <<102, 111, 114, 32, 105, 32, 105, 110, 32, 120, 58, 10, 32, 32, 98, 10>>,
    <<99, 108, 97, 115, 115, 32, 65, 58, 10, 10, 32, 32, 120, 10>>,
    <<105, 102, 32, 97, 58, 10, 32, 32, 105, 102, 32, 98, 58, 10, 10, 32, 32,
      32, 32, 99, 10>>,
    <<105, 102, 32, 97, 58, 10, 10, 32, 32, 105, 102, 32, 98, 58, 10, 32, 32,
      32, 32, 99, 10>>,
    <<105, 102, 32, 97, 58, 10, 32, 32, 98, 10, 101, 108, 105, 102, 32, 99,
      58, 10, 32, 32, 35, 32, 99, 10, 32, 32, 100, 10>>,
    <<105, 102, 32, 97, 58, 10, 32, 32, 98, 10, 101, 108, 105, 102, 32, 99,
      58, 10, 32, 32, 100, 10>>
}

\* expressions of three operands and two binary operators: the operands
\* are primaries of one token (a, 1, "s"), the operators are written between
\* spaces
Operands == { <<97>>, <<49>>, <<34, 115, 34>> }
AddOps == { <<43>>, <<45>> }
MultOps == { <<42>>, <<47>>, <<47, 47>>, <<37>> }

Infix(x, o1, y, o2, z) ==
    x \o <<32>> \o o1 \o <<32>> \o y \o <<32>> \o o2 \o <<32>> \o z \o <<10>>

PrecedenceSources ==
    { Infix(x, o[1], y, o[2], z) :
        x \in Operands, y \in Operands, z \in Operands,
        o \in (AddOps \X MultOps) \cup (MultOps \X AddOps) }

PowerSources ==
    { Infix(x, <<42, 42>>, y, <<42, 42>>, z) :
        x \in Operands, y \in Operands, z \in Operands }

\* print statements of up to two one-token arguments, with and without a
\* trailing comma, at the top level and as the body of an if statement,
\* ended by a newline or by the end of the source
PrintArgs ==
    { <<>> } \cup { <<32>> \o x : x \in Operands }
    \cup { <<32>> \o x \o <<44, 32>> \o y : x \in Operands, y \in Operands }

PrintSources ==
    { prefix \o <<112, 114, 105, 110, 116>> \o args \o comma \o end :
        prefix \in { <<>>, <<105, 102, 32, 97, 58, 10, 32, 32>> },
        args \in PrintArgs, comma \in { <<>>, <<44>> }, end \in { <<>>, <<10>> } }

ParserInit ==
    /\ \E source \in ParseSources \cup PrecedenceSources \cup PowerSources
                        \cup PrintSources :
          lexer = Lexer(source)
    /\ table = NewTable(DefaultCapacity)
    /\ ret = NoCall
    /\ popped = {}
    /\ parser = NoParser
    /\ analyzer = NoAnalyzer

\* Parser(tokens) on the token list scan returned, and the first line of
\* parse: program = Program()
ParseBegin ==
    /\ lexer.pc = "done"
    /\ parser = NoParser
    /\ parser' = [Parser(lexer.tokens) EXCEPT !.program = Program]
    /\ UNCHANGED <<table, ret, popped, lexer, analyzer>>

\* one iteration of the while loop of parse
ParseIteration ==
    /\ parser.pc = "parse"
    /\ current_token(parser).type # "EOF"
    /\ parser' = parse_iteration(parser)
    /\ UNCHANGED <<table, ret, popped, lexer, analyzer>>

\* the loop of parse ends at EOF and parse returns program
ParseReturn ==
    /\ parser.pc = "parse"
    /\ current_token(parser).type = "EOF"
    /\ parser' = [parser EXCEPT !.pc = "done"]
    /\ UNCHANGED <<table, ret, popped, lexer, analyzer>>

ParserNext == ScanStep \/ ScanFinish \/ ParseBegin \/ ParseIteration \/ ParseReturn

SpecParser == ParserInit /\ [][ParserNext]_vars

(***************************************************************************)
(* The parser on nested while statements, followed call by call.           *)
(***************************************************************************)
MaxNesting == 100

\* the token list of n nested while statements around the statement b, one
\* more space of indentation per level:
\*     WHILE a : NEWLINE (INDENT WHILE a : NEWLINE)* INDENT b NEWLINE DEDENT* EOF
NestedTokens(n) ==
    [i \in 1..(6 * n + 3) |->
       IF i < 5 * n
       THEN CASE i % 5 = 0 -> Token("INDENT", IntVal(i \div 5), (i \div 5) + 1, 1)
              [] i % 5 = 1 -> Token("WHILE", StrVal(<<119, 104, 105, 108, 101>>),
                                    (i \div 5) + 1, (i \div 5) + 1)
              [] i % 5 = 2 -> Token("IDENTIFIER", StrVal(<<97>>),
                                    (i \div 5) + 1, (i \div 5) + 7)
              [] i % 5 = 3 -> Token("COLON", StrVal(<<58>>),
                                    (i \div 5) + 1, (i \div 5) + 8)
              [] i % 5 = 4 -> Token("NEWLINE", StrVal(<<10>>),
                                    (i \div 5) + 1, (i \div 5) + 9)
       ELSE IF i = 5 * n THEN Token("INDENT", IntVal(n), n + 1, 1)
       ELSE IF i = 5 * n + 1 THEN Token("IDENTIFIER", StrVal(<<98>>), n + 1, n + 1)
       ELSE IF i = 5 * n + 2 THEN Token("NEWLINE", StrVal(<<10>>), n + 1, n + 2)
       ELSE IF i < 6 * n + 3 THEN Token("DEDENT", IntVal(0), n + 2, 1)
       ELSE Token("EOF", StrVal(<<>>), n + 2, 1)]

NestingInit ==
    /\ \E n \in {1, 2, MaxNesting} :
          parser = [Parser(NestedTokens(n)) EXCEPT !.program = Program]
    /\ analyzer = NoAnalyzer
    /\ lexer = NoLexer
    /\ table = NewTable(DefaultCapacity)
    /\ ret = NoCall
    /\ popped = {}

\* the current token after the skip_newlines of a loop head
AtHead(P) == current_token(skip_newlines(P))

\* the loop of parse or parse_block calls parse_statement on a WHILE token
NestEnter ==
    /\ parser.pc \in {"parse", "parse_block"}
    /\ AtHead(parser).type = "WHILE"
    /\ parser' = enter_while(skip_newlines(parser))
    /\ UNCHANGED <<table, ret, popped, lexer, analyzer>>

\* an iteration of either loop on a statement that is no while statement
NestStatement ==
    /\ parser.pc \in {"parse", "parse_block"}
    /\ AtHead(parser).type \notin {"WHILE", "EOF", "DEDENT"}
    /\ parser' = other_statement(skip_newlines(parser))
    /\ UNCHANGED <<table, ret, popped, lexer, analyzer>>

\* the loop of parse_block ends at DEDENT or EOF
NestLeave ==
    /\ parser.pc = "parse_block"
    /\ AtHead(parser).type \in {"EOF", "DEDENT"}
    /\ parser' = leave_while(skip_newlines(parser), parser.stack[Len(parser.stack)])
    /\ UNCHANGED <<table, ret, popped, lexer, analyzer>>

\* the loop of parse ends at EOF and parse returns program
NestReturn ==
    /\ parser.pc = "parse"
    /\ AtHead(parser).type = "EOF"
    /\ parser' = [skip_newlines(parser) EXCEPT !.pc = "done"]
    /\ UNCHANGED <<table, ret, popped, lexer, analyzer>>

NestingNext == NestEnter \/ NestStatement \/ NestLeave \/ NestReturn

SpecNesting == NestingInit /\ [][NestingNext]_vars

(***************************************************************************)
(* The pipeline Lexer(source).scan(), Parser(tokens).parse(),              *)
(* SemanticAnalyzer().analyze(ast) on a source text.                       *)
(***************************************************************************)
SemanticSources == {
    <<114, 101, 116, 117, 114, 110, 32, 52, 50, 10>>,
    <<98, 114, 101, 97, 107, 10>>,
    <<99, 111, 110, 116, 105, 110, 117, 101, 10>>,
    <<114, 101, 116, 117, 114, 110, 32, 52, 50, 10, 98, 114, 101, 97, 107,
      10, 99, 111, 110, 116, 105, 110, 117, 101, 10>>,
    <<114, 101, 116, 117, 114, 110, 10, 114, 101, 116, 117, 114, 110, 32,
      120, 10>>,
    <<100, 101, 102, 32, 102, 40, 41, 58, 10, 32, 32, 114, 101, 116, 117,
      114, 110, 32, 49, 10>>,
    <<100, 101, 102, 32, 102, 40, 41, 58, 10, 32, 32, 114, 101, 116, 117,
      114, 110, 32, 49, 10, 114, 101, 116, 117, 114, 110, 32, 50, 10>>,
    <<119, 104, 105, 108, 101, 32, 97, 58, 10, 32, 32, 98, 114, 101, 97, 107,
      10>>,
    <<119, 104, 105, 108, 101, 32, 97, 58, 10, 32, 32, 99, 111, 110, 116,
      105, 110, 117, 101, 10>>,
    <<102, 111, 114, 32, 105, 32, 105, 110, 32, 120, 58, 10, 32, 32, 98, 114,
      101, 97, 107, 10>>,
    <<119, 104, 105, 108, 101, 32, 97, 58, 10, 32, 32, 105, 102, 32, 98, 58,
      10, 32, 32, 32, 32, 98, 114, 101, 97, 107, 10>>,
    <<119, 104, 105, 108, 101, 32, 97, 58, 10, 32, 32, 119, 104, 105, 108,
      101, 32, 98, 58, 10, 32, 32, 32, 32, 99, 10, 32, 32, 98, 114, 101, 97,
      107, 10>>,
    <<119, 104, 105, 108, 101, 32, 97, 58, 10, 32, 32, 98, 10, 98, 114, 101,
      97, 107, 10>>,
    <<119, 104, 105, 108, 101, 32, 97, 58, 10, 32, 32, 100, 101, 102, 32,
      102, 40, 41, 58, 10, 32, 32, 32, 32, 98, 114, 101, 97, 107, 10>>,
    <<119, 104, 105, 108, 101, 32, 97, 58, 10, 32, 32, 114, 101, 116, 117,
      114, 110, 32, 49, 10>>,
    <<99, 108, 97, 115, 115, 32, 65, 58, 10, 32, 32, 114, 101, 116, 117, 114,
      110, 32, 49, 10>>,
    <<100, 101, 102, 32, 102, 40, 41, 58, 10, 32, 32, 99, 108, 97, 115, 115,
      32, 65, 58, 10, 32, 32, 32, 32, 114, 101, 116, 117, 114, 110, 32, 49,
      10>>,
    <<105, 102, 32, 97, 58, 10, 32, 32, 114, 101, 116, 117, 114, 110, 32, 49,
      10, 101, 108, 105, 102, 32, 98, 58, 10, 32, 32, 114, 101, 116, 117,
      114, 110, 32, 50, 10, 101, 108, 115, 101, 58, 10, 32, 32, 114, 101,
      116, 117, 114, 110, 32, 51, 10>>,
    <<100, 101, 102, 32, 102, 40, 97, 44, 32, 98, 41, 58, 10, 32, 32, 114,
      101, 116, 117, 114, 110, 32, 97, 10, 102, 40, 49, 41, 10>>,
    <<100, 101, 102, 32, 102, 40, 97, 44, 32, 98, 41, 58, 10, 32, 32, 114,
      101, 116, 117, 114, 110, 32, 97, 10, 102, 40, 49, 44, 32, 50, 41, 10>>,
    <<100, 101, 102, 32, 102, 40, 97, 44, 32, 98, 41, 58, 10, 32, 32, 114,
      101, 116, 117, 114, 110, 32, 97, 10, 102, 40, 49, 44, 32, 50, 44, 32,
      51, 41, 10>>,
    <<100, 101, 102, 32, 102, 40, 41, 58, 10, 32, 32, 114, 101, 116, 117,
      114, 110, 32, 49, 10, 102, 40, 41, 10>>,
    <<100, 101, 102, 32, 102, 40, 41, 58, 10, 32, 32, 114, 101, 116, 117,
      114, 110, 32, 49, 10, 102, 40, 49, 41, 10>>,
    <<102, 40, 49, 41, 10, 100, 101, 102, 32, 102, 40, 97, 41, 58, 10, 32,
      32, 114, 101, 116, 117, 114, 110, 32, 97, 10>>,
    <<100, 101, 102, 32, 102, 40, 97, 41, 58, 10, 32, 32, 114, 101, 116, 117,
      114, 110, 32, 97, 10, 100, 101, 102, 32, 103, 40, 41, 58, 10, 32, 32,
      114, 101, 116, 117, 114, 110, 32, 102, 40, 49, 44, 32, 50, 41, 10>>,
    <<100, 101, 102, 32, 102, 40, 97, 41, 58, 10, 32, 32, 100, 101, 102, 32,
      103, 40, 98, 41, 58, 10, 32, 32, 32, 32, 114, 101, 116, 117, 114, 110,
      32, 98, 10, 32, 32, 114, 101, 116, 117, 114, 110, 32, 103, 40, 97, 44,
      32, 97, 41, 10, 103, 40, 49, 41, 10>>,
    <<100, 101, 102, 32, 102, 40, 97, 41, 58, 10, 32, 32, 114, 101, 116, 117,
      114, 110, 32, 97, 10, 100, 101, 102, 32, 102, 40, 97, 44, 32, 98, 41,
      58, 10, 32, 32, 114, 101, 116, 117, 114, 110, 32, 97, 10, 102, 40, 49,
      41, 10>>,
    <<102, 32, 61, 32, 49, 10, 102, 40, 50, 41, 10>>,
    <<120, 32, 61, 32, 49, 10, 120, 40, 41, 10>>,
    <<103, 40, 49, 41, 10>>,
    <<100, 101, 102, 32, 102, 40, 97, 41, 58, 10, 32, 32, 114, 101, 116, 117,
      114, 110, 32, 97, 10, 120, 32, 61, 32, 102, 40, 49, 41, 32, 43, 32,
      102, 40, 41, 10>>,
    <<99, 108, 97, 115, 115, 32, 65, 58, 10, 32, 32, 100, 101, 102, 32, 109,
      40, 115, 101, 108, 102, 44, 32, 97, 41, 58, 10, 32, 32, 32, 32, 114,
      101, 116, 117, 114, 110, 32, 97, 10, 109, 40, 49, 41, 10>>,
    <<99, 108, 97, 115, 115, 32, 65, 58, 10, 32, 32, 100, 101, 102, 32, 109,
      40, 115, 101, 108, 102, 44, 32, 97, 41, 58, 10, 32, 32, 32, 32, 114,
      101, 116, 117, 114, 110, 32, 109, 40, 97, 41, 10>>,
    <<100, 101, 102, 32, 102, 40, 110, 41, 58, 10, 32, 32, 114, 101, 116,
      117, 114, 110, 32, 102, 40, 110, 41, 10>>,
    <<100, 101, 102, 32, 102, 40, 110, 41, 58, 10, 32, 32, 114, 101, 116,
      117, 114, 110, 32, 102, 40, 41, 10>>,
    <<100, 101, 102, 32, 102, 40, 110, 41, 58, 10, 32, 32, 114, 101, 116,
      117, 114, 110, 32, 103, 40, 110, 41, 10, 100, 101, 102, 32, 103, 40,
      110, 41, 58, 10, 32, 32, 114, 101, 116, 117, 114, 110, 32, 102, 40,
      110, 41, 10>>,
    <<100, 101, 102, 32, 103, 40, 110, 41, 58, 10, 32, 32, 114, 101, 116,
      117, 114, 110, 32, 102, 40, 110, 41, 10, 100, 101, 102, 32, 102, 40,
      110, 41, 58, 10, 32, 32, 114, 101, 116, 117, 114, 110, 32, 103, 40,
      110, 41, 10, 102, 40, 49, 41, 10>>,
    <<100, 101, 102, 32, 102, 40, 110, 41, 58, 10, 32, 32, 114, 101, 116,
      117, 114, 110, 32, 102, 40, 110, 41, 32, 43, 32, 102, 40, 110, 44, 32,
      110, 41, 10>>,
    <<108, 101, 110, 40, 120, 41, 10>>,
    <<120, 32, 61, 32, 49, 10, 108, 101, 110, 40, 120, 41, 10>>,
    <<108, 101, 110, 40, 41, 10>>,
    <<114, 97, 110, 103, 101, 40, 49, 44, 32, 50, 44, 32, 51, 44, 32, 52, 41,
      10>>,
    <<114, 97, 110, 103, 101, 40, 41, 10>>,
    <<109, 97, 120, 40, 41, 10>>,
    <<109, 97, 120, 40, 49, 44, 32, 50, 44, 32, 51, 41, 10>>,
    <<112, 114, 105, 110, 116, 40, 49, 44, 32, 50, 41, 10>>,
    <<105, 110, 116, 40, 49, 44, 32, 50, 44, 32, 51, 41, 10>>,
    <<115, 116, 114, 32, 61, 32, 49, 10>>,
    <<108, 101, 110, 32, 61, 32, 49, 10, 108, 101, 110, 40, 49, 44, 32, 50,
      41, 10>>,
    <<120, 10>>,
    <<120, 32, 61, 32, 49, 10, 120, 10>>,
    <<120, 32, 61, 32, 121, 10>>,
    <<120, 32, 61, 32, 120, 10>>,
    <<105, 110, 116, 10>>,
    <<120, 32, 61, 32, 53, 32, 47, 32, 48, 10>>,
    <<120, 32, 61, 32, 53, 32, 47, 47, 32, 48, 46, 48, 10>>,
    <<120, 32, 61, 32, 53, 32, 47, 32, 70, 97, 108, 115, 101, 10>>,
    <<120, 32, 61, 32, 53, 32, 47, 32, 49, 10>>,
    <<120, 32, 61, 32, 53, 32, 37, 32, 48, 10>>,
    <<120, 32, 61, 32, 49, 10, 121, 32, 61, 32, 120, 32, 47, 32, 48, 32, 47,
      32, 48, 10>>,
    <<102, 111, 114, 32, 105, 32, 105, 110, 32, 120, 58, 10, 32, 32, 105,
      10>>,
    <<102, 111, 114, 32, 105, 32, 105, 110, 32, 91, 49, 93, 58, 10, 32, 32,
      105, 10, 105, 10>>,
    <<100, 101, 102, 32, 102, 40, 97, 44, 32, 97, 41, 58, 10, 32, 32, 114,
      101, 116, 117, 114, 110, 32, 97, 10>>,
    <<100, 101, 102, 32, 102, 40, 97, 44, 32, 98, 44, 32, 97, 44, 32, 97, 41,
      58, 10, 32, 32, 114, 101, 116, 117, 114, 110, 32, 98, 10>>,
    <<100, 101, 102, 32, 102, 40, 97, 41, 58, 10, 32, 32, 120, 32, 61, 32,
      97, 10, 120, 10>>,
    <<120, 32, 61, 32, 49, 10, 100, 101, 102, 32, 102, 40, 41, 58, 10, 32,
      32, 114, 101, 116, 117, 114, 110, 32, 120, 10>>,
    <<112, 114, 105, 110, 116, 32, 121, 10>>,
    <<120, 32, 61, 32, 45, 121, 10>>,
    <<120, 32, 61, 32, 110, 111, 116, 32, 121, 10>>,
    <<105, 102, 32, 97, 58, 10, 32, 32, 98, 32, 61, 32, 49, 10, 98, 10>>,
    <<119, 104, 105, 108, 101, 32, 97, 32, 60, 32, 49, 58, 10, 32, 32, 97,
      32, 61, 32, 49, 10>>,
    <<105, 109, 112, 111, 114, 116, 32, 109, 10, 109, 10>>,
    <<99, 108, 97, 115, 115, 32, 65, 40, 66, 41, 58, 10, 32, 32, 120, 32, 61,
      32, 49, 10, 32, 32, 121, 32, 61, 32, 120, 10, 65, 10, 120, 10>>,
    <<120, 32, 61, 32, 91, 121, 93, 10>>,
    <<120, 32, 61, 32, 39, 97, 39, 32, 47, 32, 48, 10>>,
    <<120, 32, 61, 32, 40, 49, 41, 40, 50, 41, 10>>,
    <<97, 46, 98, 10>>,
    <<120, 32, 61, 32, 49, 10, 120, 91, 48, 93, 10>>,
    <<99, 108, 97, 115, 115, 32, 65, 58, 10, 32, 32, 100, 101, 102, 32, 109,
      40, 115, 101, 108, 102, 44, 32, 97, 41, 58, 10, 32, 32, 32, 32, 114,
      101, 116, 117, 114, 110, 32, 97, 10, 65, 46, 109, 40, 49, 44, 32, 50,
      41, 10>>,
    <<112, 114, 105, 110, 116, 40, 121, 41, 10>>,
    <<112, 114, 105, 110, 116, 32, 121, 44, 32, 122, 10>>,
    <<121, 10, 112, 114, 105, 110, 116, 32, 121, 10>>,
    <<112, 114, 105, 110, 116, 40, 108, 101, 110, 41, 10>>,
    <<121, 32, 61, 32, 49, 10, 112, 114, 105, 110, 116, 40, 121, 41, 10>>,
    <<112, 114, 105, 110, 116, 32, 49, 10, 112, 114, 105, 110, 116, 40, 121,
      41, 10>>,
    <<100, 101, 102, 32, 102, 40, 41, 58, 10, 32, 32, 114, 101, 116, 117,
      114, 110, 32, 49, 10, 103, 32, 61, 32, 102, 10>>,
    <<100, 101, 102, 32, 102, 40, 41, 58, 10, 32, 32, 114, 101, 116, 117,
      114, 110, 32, 49, 10, 108, 101, 110, 40, 102, 41, 10>>,
    <<100, 101, 102, 32, 102, 40, 41, 58, 10, 32, 32, 114, 101, 116, 117,
      114, 110, 32, 49, 10, 100, 101, 102, 32, 104, 40, 41, 58, 10, 32, 32,
      114, 101, 116, 117, 114, 110, 32, 102, 10>>,
    <<100, 101, 102, 32, 102, 40, 41, 58, 10, 32, 32, 114, 101, 116, 117,
      114, 110, 32, 102, 10>>,
    <<100, 101, 102, 32, 102, 40, 41, 58, 10, 32, 32, 114, 101, 116, 117,
      114, 110, 32, 49, 10, 102, 10>>,
    <<103, 32, 61, 32, 102, 10, 100, 101, 102, 32, 102, 40, 41, 58, 10, 32,
      32, 114, 101, 116, 117, 114, 110, 32, 49, 10>>,
    <<100, 101, 102, 32, 102, 40, 41, 58, 10, 32, 32, 114, 101, 116, 117,
      114, 110, 32, 49, 10, 102, 32, 61, 32, 50, 10, 103, 32, 61, 32, 102,
      10>>,
    <<120, 32, 61, 32, 120, 32, 43, 32, 49, 10>>,
    <<120, 32, 61, 32, 49, 10, 120, 32, 61, 32, 120, 32, 43, 32, 49, 10>>,
    <<100, 101, 102, 32, 102, 40, 41, 58, 10, 32, 32, 120, 32, 61, 32, 120,
      32, 43, 32, 49, 10>>,
    <<120, 32, 61, 32, 121, 32, 43, 32, 120, 10>>,
    <<120, 32, 61, 32, 49, 10, 100, 101, 102, 32, 102, 40, 41, 58, 10, 32,
      32, 120, 32, 61, 32, 120, 10>>
}

\* a function f of up to two parameters and a call of it with up to three
\* arguments: after the definition, in a later function, or in its own body
ParamLists == { <<>>, <<97>>, <<97, 44, 32, 98>> }
ArgLists == { <<>>, <<49>>, <<49, 44, 32, 50>>, <<49, 44, 32, 50, 44, 32, 51>> }
DefLine(params) == <<100, 101, 102, 32, 102, 40>> \o params \o <<41, 58, 10>>
CallOf(args) == <<102, 40>> \o args \o <<41, 10>>
ReturnLine == <<32, 32, 114, 101, 116, 117, 114, 110, 32>>
CallSources ==
    { DefLine(params) \o ReturnLine \o <<49, 10>> \o CallOf(args) :
        params \in ParamLists, args \in ArgLists }
    \cup { DefLine(params) \o ReturnLine \o <<49, 10>>
             \o <<100, 101, 102, 32, 103, 40, 41, 58, 10>> \o ReturnLine \o CallOf(args) :
             params \in ParamLists, args \in ArgLists }
    \cup { DefLine(params) \o ReturnLine \o CallOf(args) :
             params \in ParamLists, args \in ArgLists }

SemanticInit ==
    /\ \E source \in SemanticSources \cup CallSources : lexer = Lexer(source)
    /\ table = NewTable(DefaultCapacity)
    /\ ret = NoCall
    /\ popped = {}
    /\ parser = NoParser
    /\ analyzer = NoAnalyzer

\* the analyzer is imported and constructed, and analyze is called on the
\* Program that parse returned
Analyze ==
    /\ parser.pc = "done"
    /\ analyzer = NoAnalyzer
    /\ analyzer' = IF import_SemanticAnalyzer.exc # "" THEN import_SemanticAnalyzer
                   ELSE analyze(import_SemanticAnalyzer, parser.program)
    /\ UNCHANGED <<table, ret, popped, lexer, parser>>

SemanticNext == ParserNext \/ Analyze

SpecSemantic == SemanticInit /\ [][SemanticNext]_vars

(***************************************************************************)
(* SemanticAnalyzer().analyze(ast) on a tree that a caller has built from  *)
(* the node classes: wrappers nested in one another, each followed by a    *)
(* break or continue statement, and one such statement innermost.          *)
(***************************************************************************)
MaxWrappers == 3

\* a statement with a body; Elif and Else are an If with the body in its
\* first elif block or in its else branch
Wrappers == { "While", "For", "If", "Elif", "Else", "FunctionDef", "ClassDef" }

Wrap(kind, body, line) ==
    CASE kind = "While" ->
           [node |-> "While", condition |-> Literal(ConstVal("True"), line, 7),
            body |-> body, line |-> line, column |-> 1]
      [] kind = "For" ->
           [node |-> "For", target |-> Name(<<105>>, line, 5),
            iter |-> Literal(CollectionVal("list", <<>>), line, 10),
            body |-> body, line |-> line, column |-> 1]
      [] kind \in {"If", "Elif", "Else"} ->
           [node |-> "If", condition |-> Literal(ConstVal("True"), line, 4),
            then_body |-> IF kind = "If" THEN body ELSE <<>>,
            elif_blocks |-> IF kind = "Elif"
                            THEN << <<Literal(ConstVal("True"), line, 4), body>> >>
                            ELSE <<>>,
            else_body |-> IF kind = "Else" THEN body ELSE <<>>,
            line |-> line, column |-> 1]
      [] kind = "FunctionDef" ->
           [node |-> "FunctionDef", name |-> <<102>>, params |-> <<>>,
            body |-> body, decorators |-> <<>>, line |-> line, column |-> 1]
      [] kind = "ClassDef" ->
           [node |-> "ClassDef", name |-> <<65>>, bases |-> <<>>,
            body |-> body, line |-> line, column |-> 1]

\* a Break or Continue node
Flow(kind, line) == [node |-> kind, line |-> line, column |-> 1]

\* wrapper i on line i with the deeper wrappers in its body, followed by a
\* break or continue statement on a line of its own
RECURSIVE Nested(_, _, _)
Nested(kinds, i, flow) ==
    IF i > Len(kinds) THEN << Flow(flow, Len(kinds) + i) >>
    ELSE << Wrap(kinds[i],
                 Nested(kinds, i + 1, IF flow = "Break" THEN "Continue" ELSE "Break"),
                 i),
            Flow(flow, Len(kinds) + i) >>

CheckerInit ==
    /\ \E n \in 0..MaxWrappers :
         \E kinds \in [1..n -> Wrappers], flow \in {"Break", "Continue"} :
            analyzer = [pc |-> "call",
                        ast |-> [Program EXCEPT !.body = Nested(kinds, 1, flow)]]
    /\ lexer = NoLexer
    /\ parser = NoParser
    /\ table = NewTable(DefaultCapacity)
    /\ ret = NoCall
    /\ popped = {}

\* the caller imports and constructs the analyzer and calls analyze(ast)
AnalyzeAst ==
    /\ analyzer.pc = "call"
    /\ analyzer' = IF import_SemanticAnalyzer.exc # "" THEN import_SemanticAnalyzer
                   ELSE analyze(import_SemanticAnalyzer, analyzer.ast)
    /\ UNCHANGED <<table, ret, popped, lexer, parser>>

CheckerNext == AnalyzeAst

SpecChecker == CheckerInit /\ [][CheckerNext]_vars

(***************************************************************************)
(* analyze called on the trees parse_postfix builds: a name followed by up *)
(* to MaxPostfix attribute accesses, subscripts and calls                  *)
(***************************************************************************)
MaxPostfix == 3

PostfixOps == { "Attribute", "Subscript", "Call" }

\* one round of the loop of parse_postfix on expr, with the operator token
\* in column column: '.b', '[y]' or '()'; a call is attached to a name or
\* an attribute access only
Postfix(expr, op, column) ==
    CASE op = "Attribute" -> Attribute(expr, <<98>>, 1, column)
      [] op = "Subscript" -> Subscript(expr, Name(<<121>>, 1, column + 1), 1, column)
      [] op = "Call" -> IF expr.node \in {"Name", "Attribute"}
                        THEN Call(expr, <<>>, 1, column) ELSE expr

RECURSIVE Chain(_, _, _)
Chain(expr, ops, i) ==
    IF i > Len(ops) THEN expr
    ELSE Chain(Postfix(expr, ops[i], 3 * i), ops, i + 1)

\* the program: the chain on x, bare or under a unary minus, as a statement
\* or as the value of an assignment, and the name z as a second statement
PostfixInit ==
    /\ \E n \in 0..MaxPostfix :
         \E ops \in [1..n -> PostfixOps], unary \in BOOLEAN, assigned \in BOOLEAN :
            analyzer =
              [pc |-> "call",
               ast |-> [Program EXCEPT !.body =
                  << Bind(Bind(Chain(Name(<<120>>, 1, 2), ops, 1), LAMBDA e :
                            IF unary THEN UnaryOp(<<45>>, e, 1, 1) ELSE e),
                          LAMBDA e :
                            IF assigned
                            THEN Assign(Name(<<118>>, 1, 0), e, 1, 0) ELSE e),
                     Name(<<122>>, 2, 1) >>]]
    /\ lexer = NoLexer
    /\ parser = NoParser
    /\ table = NewTable(DefaultCapacity)
    /\ ret = NoCall
    /\ popped = {}

SpecPostfix == PostfixInit /\ [][CheckerNext]_vars

(***************************************************************************)
(* Properties of the identifier table                                      *)
(***************************************************************************)
Entries(t) == {chain_from(t.buckets, 0, t.capacity)[i] :
                  i \in 1..Len(chain_from(t.buckets, 0, t.capacity))}

Declares(t, name, scope) == \E e \in Entries(t) : e.name = name /\ e.scope = scope

\* the positions of the scope stack whose scope declares name
DeclaringLevels(t, name) ==
    {i \in 1..Len(t.scope_stack) : Declares(t, name, t.scope_stack[i])}

MaxOf(S) == CHOOSE x \in S : \A y \in S : y <= x

\* C3: search(name) returns the entry of the innermost scope of the current
\* scope stack that declares name, and None when no scope of the stack does.
C3_SearchInnermost ==
    \A name \in TableNames :
        LET r == search(table, name)
            D == DeclaringLevels(table, name)
        IN IF D = {} THEN r = None
           ELSE /\ r # None
                /\ r[1] \in Entries(table)
                /\ r[1].name = name
                /\ r[1].scope = table.scope_stack[MaxOf(D)]

\* a search has just run for a name declared in two scopes of the stack
C3_Witness ==
    /\ ret.op = "search"
    /\ ret.ok
    /\ Cardinality(DeclaringLevels(table, ret.name)) >= 2

\* C4: once exit_scope has popped a scope, neither search nor search_local
\* returns an entry of that scope, from the parent or from a later sibling.
C4_PoppedInvisible ==
    \A name \in TableNames :
        /\ search(table, name) # None => search(table, name)[1].scope \notin popped
        /\ search_local(table, name) # None =>
               search_local(table, name)[1].scope \notin popped

\* a lookup has just run, inside a later sibling, for a name that a popped
\* scope declares
C4_Witness ==
    /\ ret.op \in {"search", "search_local"}
    /\ Len(table.scope_stack) = 2
    /\ \E e \in Entries(table) : e.name = ret.name /\ e.scope \in popped

\* the table as seen from the scope at position i of its scope stack
ViewFrom(t, i) ==
    [t EXCEPT !.scope_stack = SubSeq(t.scope_stack, 1, i),
              !.current_scope = t.scope_stack[i]]

\* an entry without its place in the bucket array
Stripped(e) == [name |-> e.name, kind |-> e.kind, type_ |-> e.type_,
                value |-> e.value, scope |-> e.scope,
                line |-> e.line, column |-> e.column]

\* C5: a resize triggered by insert keeps every entry (name, scope, kind and
\* the other attributes), the count after the insert is the count before
\* plus the number of new entries (0 or 1), and search from an entry's
\* scope still finds it.
C5_ResizePreserves ==
    NeedsResize(table) =>
        /\ {Stripped(e) : e \in Entries(_resize(table))} =
               {Stripped(e) : e \in Entries(table)}
        /\ _resize(table).count = table.count
        /\ \A call \in InsertCalls :
             LET r == insert(table, call[1], call[2].kind, call[2].type_,
                             call[2].value, call[2].line, call[2].column)
                 new == IF Declares(table, call[1], table.current_scope) THEN 0 ELSE 1
             IN r.ok =>
                 /\ r.resized
                 /\ r.t.count = table.count + new
                 /\ \A e \in Entries(table) :
                      /\ \E e2 \in Entries(r.t) :
                           /\ e2.name = e.name /\ e2.scope = e.scope
                           /\ e2.kind = e.kind \/
                                (e.name = call[1] /\ e.scope = table.current_scope)
                      /\ \A i \in 1..Len(table.scope_stack) :
                           e.scope = table.scope_stack[i] =>
                             /\ search(ViewFrom(r.t, i), e.name) # None
                             /\ search(ViewFrom(r.t, i), e.name)[1].scope = e.scope

\* an insert has just resized a table that held entries in one chain
C5_Witness ==
    /\ ret.op = "insert"
    /\ ret.resized
    /\ table.count >= 3
    /\ NeedsResize(table)

\* C6: count equals the sum of the lengths of the bucket chains.
C6_CountIsChainSum ==
    table.count = Len(chain_from(table.buckets, 0, table.capacity))

\* two resizes have happened and the table holds entries
C6_Witness ==
    /\ table.capacity >= 8
    /\ table.count >= 3
    /\ ret.op = "insert"

\* C7: inserting a name that has an entry in the current scope creates no
\* second entry, leaves count unchanged and keeps the entry's bucket index
\* and slot index.
C7_UpdateInPlace ==
    \A call \in InsertCalls :
        \A e \in Entries(table) :
            (e.name = call[1] /\ e.scope = table.current_scope) =>
                LET r == insert(table, call[1], call[2].kind, call[2].type_,
                                call[2].value, call[2].line, call[2].column)
                IN /\ r.t.count = table.count
                   /\ Cardinality({x \in Entries(r.t) :
                                     x.name = e.name /\ x.scope = e.scope}) = 1
                   /\ \E x \in Entries(r.t) :
                        /\ x.name = e.name /\ x.scope = e.scope
                        /\ x.bucket = e.bucket /\ x.pos = e.pos

\* [A-Za-z_][A-Za-z0-9_]*
IsAsciiLetter(c) == c \in 65..90 \/ c \in 97..122
MatchesAsciiIdentifier(name) ==
    /\ name # <<>>
    /\ IsAsciiLetter(name[1]) \/ name[1] = 95
    /\ \A i \in 1..Len(name) :
         IsAsciiLetter(name[i]) \/ IsAsciiDigit(name[i]) \/ name[i] = 95

Rejected(t, name, a) ==
    LET r == insert(t, name, a.kind, a.type_, a.value, a.line, a.column)
    IN ~r.ok /\ r.err # "" /\ r.t = t

\* C8 as stated: insert rejects every name that does not match
\* [A-Za-z_][A-Za-z0-9_]* and leaves the table unchanged.
C8_RejectsNonAscii ==
    \A name \in TableNames, a \in TableAttrs :
        ~MatchesAsciiIdentifier(name) => Rejected(table, name, a)

\* C8 amended: insert rejects the empty name, a name whose first character is
\* a digit (str.isdigit) and a name with a character that is neither
\* alphanumeric (str.isalnum, non-ASCII letters and digits included) nor '_';
\* it then leaves count, capacity, the chains and the scope stack unchanged.
C8_RejectsInvalid ==
    \A name \in TableNames, a \in TableAttrs :
        (\/ name = <<>>
         \/ IsDigit(name[1])
         \/ \E i \in 1..Len(name) : ~IsAlnum(name[i]) /\ name[i] # 95)
        => Rejected(table, name, a)

\* an invalid name has just been rejected by a table that is due for a resize
C8_Witness ==
    /\ ret.op = "insert"
    /\ ~ret.ok
    /\ ret.name # <<>>
    /\ NeedsResize(table)

\* C9: every scope id is the decimal depth, optionally followed by exactly
\* one lowercase letter; the first scope at a depth is the bare depth and
\* the k-th is the depth followed by the (k-1)-th letter.
C9_ScopeIdFormat ==
    \A i \in 2..Len(table.scope_stack) :
        LET s == table.scope_stack[i]
            d == str(i - 1)
            k == table.scope_depth_counter[i - 1]
        IN /\ \/ s = d
              \/ /\ Len(s) = Len(d) + 1
                 /\ SubSeq(s, 1, Len(d)) = d
                 /\ s[Len(s)] \in 97..122
           /\ k = 1 => s = d
           /\ k >= 2 => s = d \o <<97 + k - 2>>

(***************************************************************************)
(* Properties of the lexer                                                 *)
(***************************************************************************)
\* the number of tokens of a type
CountType(tokens, type) ==
    Cardinality({i \in 1..Len(tokens) : tokens[i].type = type})

IsPrefix(s, t) == Len(s) <= Len(t) /\ SubSeq(t, 1, Len(s)) = s

\* C2: after scan has finished, as many INDENT as DEDENT tokens have been
\* emitted, the indent stack is [0] and the table's scope stack holds the
\* global scope only.
C2_IndentsBalanced ==
    lexer.pc = "done" =>
        /\ CountType(lexer.tokens, "INDENT") = CountType(lexer.tokens, "DEDENT")
        /\ lexer.indent_stack = <<0>>
        /\ table.scope_stack = << <<48>> >>
        /\ table.current_scope = <<48>>

\* scan has finished on a text with two nested indented blocks
C2_Witness ==
    /\ lexer.pc = "done"
    /\ CountType(lexer.tokens, "INDENT") >= 2
    /\ lexer.errors = <<>>

\* C10: scan never aborts; every iteration of its loop advances pos and only
\* appends to the diagnostics; the returned list has one EOF token, the last.
C10_ScanCompletes ==
    /\ lexer.pc # "aborted"
    /\ (lexer.pc = "scan" /\ lexer.pos < Len(lexer.source)) =>
          /\ scan_step(lexer, table).lx.pc # "aborted"
          /\ scan_step(lexer, table).lx.pos > lexer.pos
          /\ IsPrefix(lexer.errors, scan_step(lexer, table).lx.errors)
    /\ lexer.pc = "done" =>
          /\ CountType(lexer.tokens, "EOF") = 1
          /\ lexer.tokens[Len(lexer.tokens)].type = "EOF"

\* how the text of a single-line string ends, read from index i of source
\* (the character after the opening quote): at its closing quote, at a raw
\* newline, or at the end of input; a backslash escapes the next character
RECURSIVE string_end(_, _, _)
string_end(source, i, quote) ==
    IF i > Len(source) THEN "end of input"
    ELSE IF source[i] = quote THEN "closed"
    ELSE IF source[i] = 10 THEN "raw newline"
    ELSE IF source[i] = 92 THEN string_end(source, i + 2, quote)
    ELSE string_end(source, i + 1, quote)

\* the lexer is where scan calls read_string for a string that is not
\* triple-quoted
AtSingleString(L) ==
    /\ L.pc = "scan"
    /\ ~L.at_line_start
    /\ current_char(L) \in {34, 39}
    /\ ~(peek_char(L, 1) = current_char(L) /\ peek_char(L, 2) = current_char(L))

\* C11: a single-quoted or double-quoted string that meets a raw newline or
\* the end of input before its closing quote gets an "unterminated string"
\* diagnostic at the position of its opening quote.
C11_UnterminatedString ==
    (/\ AtSingleString(lexer)
     /\ string_end(lexer.source, lexer.pos + 2, current_char(lexer)) # "closed")
        => read_string(lexer, current_char(lexer)).lx.errors =
              Append(lexer.errors,
                     Diag(lexer.line, lexer.column, "unterminated string"))

(***************************************************************************)
(* Properties of the parser                                                *)
(***************************************************************************)
\* C1: for every token list the lexer produced, parse terminates and
\* returns a Program: no exception leaves parse, every iteration of the
\* statement loops of parse and parse_block ends with the cursor further
\* than it began, and what parse returns is the Program node.
C1_ParseReturnsProgram ==
    parser.pc # "none" =>
        /\ parser.pc # "aborted"
        /\ ~parser.stalled
        /\ parser.program.node = "Program"
        /\ (parser.pc = "parse" /\ current_token(parser).type # "EOF") =>
              \/ parse_iteration(parser).pos > parser.pos
              \/ parse_iteration(parser).pc = "done"

\* C12: the nesting of statements is guarded: parse_statement is never
\* active more than the limit of 100 levels deep, and past the limit the
\* parser records a diagnostic rather than recursing further.
C12_DepthGuard ==
    parser.pc # "none" => parser.max_depth <= 100

\* C13: parse_statement dispatches on BREAK, CONTINUE and PASS as it does on
\* the other statement keywords: called on such a token it returns the
\* break / continue / pass node and records no diagnostic.
C13_BreakContinuePass ==
    (/\ parser.pc = "parse"
     /\ current_token(parser).type \in {"BREAK", "CONTINUE", "PASS"})
        => /\ parse_statement(parser).ps.errors = parser.errors
           /\ parse_statement(parser).node.node =
                 (CASE current_token(parser).type = "BREAK" -> "Break"
                    [] current_token(parser).type = "CONTINUE" -> "Continue"
                    [] current_token(parser).type = "PASS" -> "Pass")

\* the tokens are operand, operator, operand, operator, operand, NEWLINE, EOF
\* with operators of the token types ops1 and ops2
IsInfix(tokens, ops1, ops2) ==
    /\ Len(tokens) = 7
    /\ \A i \in {1, 3, 5} : tokens[i].type \in {"IDENTIFIER", "NUMBER", "STRING"}
    /\ tokens[2].type \in ops1
    /\ tokens[4].type \in ops2
    /\ tokens[6].type = "NEWLINE"
    /\ tokens[7].type = "EOF"

\* the node of an operand token, and of a binary operation at its operator
Operand(token) ==
    IF token.type = "IDENTIFIER" THEN Name(token.value.s, token.line, token.column)
    ELSE Literal(token.value, token.line, token.column)
Binary(left, op_token, right) ==
    BinOp(left, op_token.value.s, right, op_token.line, op_token.column)

AddTypes == {"PLUS", "MINUS"}
MultTypes == {"MULTIPLY", "DIVIDE", "FLOOR_DIVIDE", "MODULO"}

\* C14: multiplicative operators bind tighter than additive ones: a + b * c
\* parses to BinOp(+, a, BinOp(*, b, c)) and a * b + c parses to
\* BinOp(+, BinOp(*, a, b), c), for + or -, and for *, /, // or %.
C14_MultBindsTighter ==
    parser.pc = "done" =>
        /\ IsInfix(parser.tokens, AddTypes, MultTypes) =>
              parser.program.body =
                 << Binary(Operand(parser.tokens[1]), parser.tokens[2],
                           Binary(Operand(parser.tokens[3]), parser.tokens[4],
                                  Operand(parser.tokens[5]))) >>
        /\ IsInfix(parser.tokens, MultTypes, AddTypes) =>
              parser.program.body =
                 << Binary(Binary(Operand(parser.tokens[1]), parser.tokens[2],
                                  Operand(parser.tokens[3])),
                           parser.tokens[4], Operand(parser.tokens[5])) >>

C14_Witness ==
    /\ parser.pc = "done"
    /\ IsInfix(parser.tokens, {"MINUS"}, {"FLOOR_DIVIDE"})
    /\ parser.program.body[1].op = <<45>>
    /\ parser.program.body[1].right.op = <<47, 47>>

\* C15: the power operator is right-associative: a ** b ** c parses to
\* BinOp(**, a, BinOp(**, b, c)).
C15_PowerRightAssociative ==
    (parser.pc = "done" /\ IsInfix(parser.tokens, {"POWER"}, {"POWER"})) =>
        parser.program.body =
           << Binary(Operand(parser.tokens[1]), parser.tokens[2],
                     Binary(Operand(parser.tokens[3]), parser.tokens[4],
                            Operand(parser.tokens[5]))) >>

C15_Witness ==
    /\ parser.pc = "done"
    /\ IsInfix(parser.tokens, {"POWER"}, {"POWER"})
    /\ parser.program.body[1].right.node = "BinOp"
    /\ parser.program.body[1].left.node = "Name"

\* from index first, the tokens are PRINT, n one-token arguments separated
\* by commas, a trailing comma or none, and the end of the statement
IsPrint(tokens, first, n, trailing) ==
    /\ Len(tokens) >= first + 2 * n + (IF trailing THEN 1 ELSE 0)
    /\ tokens[first].type = "PRINT"
    /\ \A j \in 1..n :
          tokens[first + 2 * j - 1].type \in {"IDENTIFIER", "NUMBER", "STRING"}
    /\ \A j \in 1..(n - 1) : tokens[first + 2 * j].type = "COMMA"
    /\ n > 0 =>
          IF trailing
          THEN /\ tokens[first + 2 * n].type = "COMMA"
               /\ tokens[first + 2 * n + 1].type \in {"NEWLINE", "EOF", "DEDENT"}
          ELSE tokens[first + 2 * n].type \in {"NEWLINE", "EOF", "DEDENT"}
    /\ n = 0 => (~trailing /\ tokens[first + 1].type \in {"NEWLINE", "EOF", "DEDENT"})

\* the node of such a statement: its arguments in order, and newline unless
\* the comma trails
PrintOf(tokens, first, n, trailing) ==
    [node |-> "Print",
     args |-> [j \in 1..n |-> Operand(tokens[first + 2 * j - 1])],
     newline |-> ~trailing,
     line |-> tokens[first].line, column |-> tokens[first].column]

\* C16: the newline flag of a Print node is False exactly when the argument
\* list ends with a comma directly followed by NEWLINE, EOF or DEDENT; the
\* arguments are the same with and without the trailing comma.
C16_PrintNewlineFlag ==
    parser.pc = "done" =>
        \A n \in 0..2, trailing \in BOOLEAN :
            /\ IsPrint(parser.tokens, 1, n, trailing) =>
                  parser.program.body[1] = PrintOf(parser.tokens, 1, n, trailing)
            /\ (parser.tokens[1].type = "IF" /\ IsPrint(parser.tokens, 6, n, trailing)) =>
                  parser.program.body[1].then_body =
                     << PrintOf(parser.tokens, 6, n, trailing) >>

C16_Witness ==
    /\ parser.pc = "done"
    /\ parser.tokens[1].type = "IF"
    /\ IsPrint(parser.tokens, 6, 2, TRUE)
    /\ parser.tokens[11].type = "DEDENT"
    /\ ~parser.program.body[1].then_body[1].newline
    /\ Len(parser.program.body[1].then_body[1].args) = 2

(***************************************************************************)
(* Properties of the semantic analyzer                                     *)
(***************************************************************************)
\* the diagnostic of a return, break or continue statement out of context
FlowError(token_type) ==
    CASE token_type = "RETURN" -> "RETURN_OUTSIDE_FUNCTION"
      [] token_type = "BREAK" -> "BREAK_OUTSIDE_LOOP"
      [] token_type = "CONTINUE" -> "CONTINUE_OUTSIDE_LOOP"

\* the number of diagnostics of a type at the position of a token
Reported(error_type, token) ==
    Cardinality({ k \in DOMAIN analyzer.errors :
                    analyzer.errors[k] = [error_type |-> error_type,
                                          line |-> token.line,
                                          column |-> token.column] })

\* token i is the first token of a statement
StartsStatement(tokens, i) ==
    /\ tokens[i].type \notin {"NEWLINE", "INDENT", "DEDENT", "EOF"}
    /\ i = 1 \/ tokens[i - 1].type \in {"NEWLINE", "INDENT", "DEDENT"}

\* C17: through the pipeline scan, parse, analyze, every return statement
\* outside a function and every break or continue statement outside a loop
\* is reported once; here for the statements at the top level of the source.
C17_FlowContextReported ==
    analyzer.pc # "none" =>
        /\ analyzer.pc = "done"
        /\ \A i \in DOMAIN parser.tokens :
              ( /\ StartsStatement(parser.tokens, i)
                /\ parser.tokens[i].column = 1
                /\ parser.tokens[i].type \in {"RETURN", "BREAK", "CONTINUE"} )
              => Reported(FlowError(parser.tokens[i].type), parser.tokens[i]) = 1

\* the diagnostic of a Return, Break or Continue node out of context
FlowErrorOf(node) ==
    CASE node.node = "Return" -> "RETURN_OUTSIDE_FUNCTION"
      [] node.node = "Break" -> "BREAK_OUTSIDE_LOOP"
      [] node.node = "Continue" -> "CONTINUE_OUTSIDE_LOOP"

\* the Break and Continue nodes of a statement list that have (wanted) or
\* have not (~wanted) an enclosing While or For inside their innermost
\* function or class body; in_loop tells it for the list itself
RECURSIVE FlowIn(_, _, _)
RECURSIVE FlowOf(_, _, _)
FlowIn(stmts, in_loop, wanted) ==
    UNION { FlowOf(stmts[k], in_loop, wanted) : k \in DOMAIN stmts }

FlowOf(stmt, in_loop, wanted) ==
    CASE stmt.node \in {"Break", "Continue"} ->
            IF in_loop = wanted THEN {stmt} ELSE {}
      [] stmt.node \in {"While", "For"} -> FlowIn(stmt.body, TRUE, wanted)
      [] stmt.node \in {"FunctionDef", "ClassDef"} -> FlowIn(stmt.body, FALSE, wanted)
      [] stmt.node = "If" ->
            FlowIn(stmt.then_body, in_loop, wanted)
            \cup UNION { FlowIn(stmt.elif_blocks[k][2], in_loop, wanted) :
                           k \in DOMAIN stmt.elif_blocks }
            \cup FlowIn(stmt.else_body, in_loop, wanted)
      [] OTHER -> {}

\* C18: the loop context is restored around every loop: a Break or Continue
\* node is reported, once, exactly when no While or For encloses it inside
\* its innermost function or class body.
C18_LoopContext ==
    analyzer.pc \notin {"none", "call"} =>
        /\ analyzer.pc = "done"
        /\ \A node \in FlowIn(analyzer.ast.body, FALSE, FALSE) :
              Reported(FlowErrorOf(node), node) = 1
        /\ \A node \in FlowIn(analyzer.ast.body, FALSE, TRUE) :
              Reported(FlowErrorOf(node), node) = 0

\* a loop whose body is a function definition followed by a statement, and
\* a statement after the loop: the statement in the function and the one
\* after the loop are reported, the one in the loop is not
C18_Witness ==
    /\ analyzer.pc = "done"
    /\ Len(analyzer.ast.body) = 2
    /\ analyzer.ast.body[1].node = "While"
    /\ analyzer.ast.body[1].body[1].node = "FunctionDef"
    /\ analyzer.ast.body[1].body[1].body[1].node = "For"
    /\ Reported("BREAK_OUTSIDE_LOOP", analyzer.ast.body[2]) = 1
    /\ Reported("CONTINUE_OUTSIDE_LOOP", analyzer.ast.body[1].body[2]) = 0
    /\ Reported("BREAK_OUTSIDE_LOOP", analyzer.ast.body[1].body[1].body[2]) = 1
    /\ Reported("CONTINUE_OUTSIDE_LOOP",
                analyzer.ast.body[1].body[1].body[1].body[1]) = 0

\* a call statement or a returned call of the function node
CallsOf(stmt, function) ==
    IF stmt.node = "Call" THEN
        IF stmt.func.node = "Name" /\ stmt.func.id = function.name
        THEN {stmt} ELSE {}
    ELSE IF stmt.node = "Return" /\ stmt.value.node = "Call"
              /\ stmt.value.func.node = "Name"
              /\ stmt.value.func.id = function.name
         THEN {stmt.value} ELSE {}

\* the statements after statement k of the top level, and the statements of
\* the bodies of the functions defined from statement k on
After(body, k) ==
    { body[m] : m \in (k + 1)..Len(body) }
    \cup UNION { { body[m].body[n] : n \in DOMAIN body[m].body } :
                   m \in { m \in k..Len(body) : body[m].node = "FunctionDef" } }

\* no later statement of the top level defines the name again
LastDefinition(body, k) ==
    \A m \in (k + 1)..Len(body) :
        ~(body[m].node \in {"FunctionDef"} /\ body[m].name = body[k].name)

ReturnedCalls(function) ==
    { function.body[n].value :
        n \in { n \in DOMAIN function.body :
                  /\ function.body[n].node = "Return"
                  /\ function.body[n].value.node = "Call"
                  /\ function.body[n].value.func.node = "Name" } }

\* C20: a function is registered before its body is checked, so that direct
\* and mutual recursion give no UNDECLARED_IDENTIFIER: no call, in the body
\* of a top-level function, of a function defined at the top level.
C20_Recursion ==
    analyzer.pc # "none" =>
        /\ analyzer.pc = "done"
        /\ \A k, m \in DOMAIN parser.program.body :
              ( /\ parser.program.body[k].node = "FunctionDef"
                /\ parser.program.body[m].node = "FunctionDef" )
              => \A call \in ReturnedCalls(parser.program.body[k]) :
                    call.func.id = parser.program.body[m].name
                      => Reported("UNDECLARED_IDENTIFIER", call) = 0

\* the Name nodes that a statement of the top level reads: in the
\* arguments of print, in the value of an assignment or a return, in the
\* operands of an operator and in the arguments of a call (the callee of a
\* call is reported at the call)
RECURSIVE NamesOf(_)
NamesOf(node) ==
    CASE node.node = "Name" -> {node}
      [] node.node = "Print" -> UNION { NamesOf(node.args[k]) : k \in DOMAIN node.args }
      [] node.node \in {"Assign", "Return"} -> NamesOf(node.value)
      [] node.node = "BinOp" -> NamesOf(node.left) \cup NamesOf(node.right)
      [] node.node = "UnaryOp" -> NamesOf(node.operand)
      [] node.node = "Call" -> UNION { NamesOf(node.args[k]) : k \in DOMAIN node.args }
      [] OTHER -> {}

\* the name is in no scope of the chain when analyze returns (only the
\* global scope is left, and it never loses a name) and is not a builtin
Undeclared(id) ==
    /\ \A k \in DOMAIN analyzer.scopes : id \notin analyzer.scopes[k].declared_vars
    /\ \A k \in DOMAIN analyzer.scopes : id \notin DOMAIN analyzer.scopes[k].functions
    /\ id \notin DOMAIN BUILTIN_FUNCTIONS
    /\ id \notin BUILTIN_TYPES

\* C21: every reference to a name that is in no scope of the chain and is
\* not a builtin is reported as UNDECLARED_IDENTIFIER, wherever the
\* reference stands: also as an argument of print, as in print(undefined_var).
C21_UndeclaredReported ==
    analyzer.pc # "none" =>
        /\ analyzer.pc = "done"
        /\ \A k \in DOMAIN parser.program.body :
              \A name \in NamesOf(parser.program.body[k]) :
                 Undeclared(name.id)
                   => Reported("UNDECLARED_IDENTIFIER", name) >= 1

\* C29: after a function definition has been analysed, a reference to the
\* name of the function that is not a call gives no UNDECLARED_IDENTIFIER:
\* in a later statement of the defining scope, in the body of the function
\* and in the body of a function defined after it.
C29_FunctionReference ==
    analyzer.pc # "none" =>
        /\ analyzer.pc = "done"
        /\ \A k \in DOMAIN parser.program.body :
              parser.program.body[k].node = "FunctionDef"
              => \A stmt \in After(parser.program.body, k) :
                   \A name \in NamesOf(stmt) :
                      name.id = parser.program.body[k].name
                        => Reported("UNDECLARED_IDENTIFIER", name) = 0

\* the statement declares no name in the scope it stands in, or only names
\* other than id: an expression statement, a print statement, or an
\* assignment to another name
DeclaresNot(stmt, id) ==
    \/ stmt.node \in {"Name", "Call", "BinOp", "UnaryOp", "Literal", "Print"}
    \/ /\ stmt.node = "Assign"
       /\ stmt.target.node = "Name"
       /\ stmt.target.id # id

\* C30: an assignment declares its target after its value has been checked:
\* in the assignment of the top level that first declares a name, a read of
\* that name in the value is reported as UNDECLARED_IDENTIFIER.
C30_ValueBeforeTarget ==
    analyzer.pc # "none" =>
        /\ analyzer.pc = "done"
        /\ \A k \in DOMAIN parser.program.body :
              ( /\ parser.program.body[k].node = "Assign"
                /\ parser.program.body[k].target.node = "Name"
                /\ parser.program.body[k].target.id \notin DOMAIN BUILTIN_FUNCTIONS
                /\ parser.program.body[k].target.id \notin BUILTIN_TYPES
                /\ \A j \in 1..(k - 1) :
                      DeclaresNot(parser.program.body[j],
                                  parser.program.body[k].target.id) )
              => \A name \in NamesOf(parser.program.body[k].value) :
                    name.id = parser.program.body[k].target.id
                      => Reported("UNDECLARED_IDENTIFIER", name) >= 1

\* C22: analyze completes a full pass on every tree: it returns without an
\* exception, also on trees with subscript, attribute access and unary
\* operator nodes, and it has visited every statement: an undeclared name
\* that is a statement of the top level is reported.
C22_FullPass ==
    analyzer.pc \notin {"none", "call"} =>
        /\ analyzer.pc = "done"
        /\ analyzer.exc = ""
        /\ \A k \in DOMAIN analyzer.ast.body :
              ( /\ analyzer.ast.body[k].node = "Name"
                /\ Undeclared(analyzer.ast.body[k].id) )
              => Reported("UNDECLARED_IDENTIFIER", analyzer.ast.body[k]) >= 1

\* C23: at every point of scan, the indent stack of the lexer is as long as
\* the scope stack of its table: every push goes with one enter_scope and
\* every pop with one exit_scope that pops a scope.
C23_StacksPaired ==
    lexer.pc # "none" => Len(lexer.indent_stack) = Len(table.scope_stack)

\* C24: every entry stored in the table knows its place: its bucket index is
\* the hash of its name for the current capacity and lies in 0..capacity-1,
\* and the element at its slot index of that bucket is the entry itself.
C24_EntriesInPlace ==
    \A b \in DOMAIN table.buckets :
        \A i \in DOMAIN table.buckets[b] :
            /\ table.buckets[b][i].bucket = _hash(table.buckets[b][i].name, table.capacity)
            /\ table.buckets[b][i].bucket \in 0..(table.capacity - 1)
            /\ table.buckets[b][i].pos \in 0..(Len(table.buckets[table.buckets[b][i].bucket]) - 1)
            /\ table.buckets[table.buckets[b][i].bucket][table.buckets[b][i].pos + 1]
                 = table.buckets[b][i]

\* an insert has just resized the table: an entry sits in a bucket of the
\* upper half, which its name did not hash to before, and a chain holds two
\* entries
C24_Witness ==
    /\ ret.op = "insert"
    /\ ret.resized
    /\ table.capacity >= 4
    /\ \E e \in Entries(table) : e.bucket >= table.capacity \div 2
    /\ \E e \in Entries(table) : e.pos >= 1

\* C25: indentation is evaluated at the start of a line only: an INDENT or
\* DEDENT token that the scan loop emits stands in column 1, before the
\* first token of its line, never after a token in the middle of a line
\* (the DEDENT tokens of the end of input are emitted when scan finishes).
C25_IndentAtLineStart ==
    lexer.pc = "scan" =>
        \A i \in DOMAIN lexer.tokens :
            lexer.tokens[i].type \in {"INDENT", "DEDENT"}
              => lexer.tokens[i].column = 1

\* C26: parse_return takes DEDENT for the end of the statement, as it takes
\* NEWLINE and EOF: called at a return token that a DEDENT follows, it
\* consumes the return token only, builds a Return without a value and
\* records no diagnostic, so that the DEDENT is left for the block.
C26_ReturnBeforeDedent ==
    parser.pc # "none" =>
        \A i \in 1..(Len(parser.tokens) - 1) :
            ( /\ parser.tokens[i].type = "RETURN"
              /\ parser.tokens[i + 1].type = "DEDENT" )
            => /\ parse_return([Parser(parser.tokens) EXCEPT !.pos = i - 1]).ps.pos = i
               /\ parse_return([Parser(parser.tokens) EXCEPT !.pos = i - 1]).ps.errors = <<>>
               /\ parse_return([Parser(parser.tokens) EXCEPT !.pos = i - 1]).node.value = NoNode

\* Lexer.scan and Parser.parse run to their end
RECURSIVE scan(_, _)
scan(L, T) ==
    IF L.pc # "scan" THEN L
    ELSE IF L.pos < Len(L.source)
    THEN Bind(scan_step(L, T), LAMBDA r : scan(r.lx, r.tb))
    ELSE scan_finish(L, T).lx

RECURSIVE parse(_)
parse(P) ==
    IF P.pc # "parse" THEN P
    ELSE IF current_token(P).type = "EOF" THEN [P EXCEPT !.pc = "done"]
    ELSE parse(parse_iteration(P))

\* the parser after Parser(Lexer(source).scan()).parse()
ParseOf(source) ==
    parse([Parser(scan(Lexer(source), NewTable(DefaultCapacity)).tokens)
             EXCEPT !.program = Program])

\* source with a line inserted after its first k characters
InsertAt(source, k, line) ==
    SubSeq(source, 1, k) \o line \o SubSeq(source, k + 1, Len(source))

\* the lines that are skipped: an empty line, a line of blanks, a comment
\* in column 1 and an indented comment
SkippedLines == { <<10>>, <<32, 32, 32, 10>>, <<35, 99, 10>>, <<32, 32, 35, 99, 10>> }

\* the statement structure: the kind of every statement and, for a compound
\* statement, the structure of its blocks
RECURSIVE Structure(_)
Structure(stmts) ==
    [k \in DOMAIN stmts |->
       CASE stmts[k].node \in {"While", "For", "FunctionDef", "ClassDef"} ->
              <<stmts[k].node, Structure(stmts[k].body)>>
         [] stmts[k].node = "If" ->
              <<"If", Structure(stmts[k].then_body),
                [e \in DOMAIN stmts[k].elif_blocks |->
                    Structure(stmts[k].elif_blocks[e][2])],
                Structure(stmts[k].else_body)>>
         [] OTHER -> <<stmts[k].node>>]

\* C27: blank and comment-only lines do not change the parse: when a source
\* lexes and parses with no diagnostic, the source with such a line inserted
\* after a block header (a line that ends in ':') lexes and parses with no
\* diagnostic too and gives the same statement structure.
C27_BlankLinesSkipped ==
    ( /\ parser.pc = "done"
      /\ lexer.errors = <<>>
      /\ parser.errors = <<>> )
    => \A k \in 2..Len(lexer.source), line \in SkippedLines :
          (lexer.source[k] = 10 /\ lexer.source[k - 1] = 58)
          => /\ scan(Lexer(InsertAt(lexer.source, k, line)),
                     NewTable(DefaultCapacity)).errors = <<>>
             /\ ParseOf(InsertAt(lexer.source, k, line)).pc = "done"
             /\ ParseOf(InsertAt(lexer.source, k, line)).errors = <<>>
             /\ Structure(ParseOf(InsertAt(lexer.source, k, line)).program.body)
                  = Structure(parser.program.body)

\* base expressions that are neither a name nor an attribute access: a
\* literal, the result of a call and a subscript
PostfixBases ==
    { Literal(ConstVal("True"), 1, 1),
      Call(Name(<<102>>, 1, 1), <<>>, 1, 2),
      Subscript(Name(<<120>>, 1, 1), Literal(ConstVal("True"), 1, 3), 1, 2) }

\* C28: parse_postfix consumes a '(' only when it attaches a Call: with a
\* base that is neither a name nor an attribute access, the loop of
\* parse_postfix at a '(' that follows a literal, a ')' or a ']' returns the
\* base, leaves the cursor on the '(', records nothing and raises nothing.
C28_CallOnNamesOnly ==
    parser.pc # "none" =>
        \A i \in DOMAIN parser.tokens, base \in PostfixBases :
            ( /\ parser.tokens[i].type = "LPAREN"
              /\ i > 1
              /\ parser.tokens[i - 1].type \in {"RPAREN", "RBRACKET", "NUMBER", "STRING"} )
            => /\ postfix_loop([Parser(parser.tokens) EXCEPT !.pos = i - 1], base).ps.exc = ""
               /\ postfix_loop([Parser(parser.tokens) EXCEPT !.pos = i - 1], base).ps.pos = i - 1
               /\ postfix_loop([Parser(parser.tokens) EXCEPT !.pos = i - 1], base).ps.errors = <<>>
               /\ postfix_loop([Parser(parser.tokens) EXCEPT !.pos = i - 1], base).node = base

====
